---- MODULE Spec2Model ----
(***************************************************************************)
(* Model of the exr-preview editor extension (src/src/extension.ts, the    *)
(* second, current version of the provider that starts at line 138).       *)
(*                                                                         *)
(* A command line is a sequence of string tokens, built exactly as the     *)
(* template literals of the source build it.  An external process is a     *)
(* step that starts it (the command is appended to the log of the call)    *)
(* and a later step in which it exits, successfully or not.                *)
(*                                                                         *)
(* A header count of 0 stands for "0 or missing": every read of a count    *)
(* in the source is  header.x || 0  or  header.x || 1, which treat the     *)
(* two alike.                                                              *)
(***************************************************************************)
EXTENDS Integers, Sequences, FiniteSets, TLC

VARIABLES
    ux,     \* one call of updateKtx2Preview
    ae,     \* one call of adjustExposure
    cc,     \* one call of getColorConfigInfo
    ki,     \* one call of getKtx2Info
    \* a preview session: resolveCustomEditor and what follows it.  In a
    \* session ux, ae, cc and ki are the calls made by resolveCustomEditor
    \* itself; each message handler has calls of its own.
    doc,            \* the document: its base name and its extension
    pc,             \* where resolveCustomEditor is
    colorDisplays,  \* this.colorDisplays
    info,           \* the const info of the .ktx2 branch
    web,            \* the webview: its html, the image shown, messages posted
    ui,             \* the state of the script running in the webview
    handlers,       \* the calls of the onDidReceiveMessage listener, in order
    fs,             \* the temporary files
    notes,          \* the error notifications shown
    log,            \* the commands started by resolveCustomEditor, in order
    \* two sessions of the one provider object: the variables above, but for
    \* colorDisplays and fs which both sessions share, are those of the
    \* session that takes the next step
    me,             \* which session that is, 1 or 2
    peer            \* the variables of the other session, if there is one

session == <<doc, pc, colorDisplays, info, web, ui, handlers, fs, notes, log, me, peer>>
vars == <<ux, ae, cc, ki, session>>
notUx == <<ae, cc, ki, session>>
notAe == <<ux, cc, ki, session>>
notCc == <<ux, ae, ki, session>>
notKi == <<ux, ae, cc, session>>

(***************************************************************************)
(* Bounds                                                                  *)
(***************************************************************************)
MaxCount == 2       \* header counts range over 0..MaxCount
MaxIndex == 1       \* selection indices range over 0..MaxIndex
MaxDisplays == 2    \* displays listed by the color-config query
MaxViews == 2       \* views listed for one display

(***************************************************************************)
(* Generic helpers                                                         *)
(***************************************************************************)
Range(s) == { s[i] : i \in 1..Len(s) }

\* the token following the first occurrence of flag in cmd ("" when absent)
FlagValue(cmd, flag) ==
    IF \E i \in 1..(Len(cmd) - 1) : cmd[i] = flag
    THEN cmd[(CHOOSE i \in 1..(Len(cmd) - 1) :
                 cmd[i] = flag /\ \A j \in 1..(i - 1) : cmd[j] # flag) + 1]
    ELSE ""

HasFlag(cmd, flag) == flag \in Range(cmd)

(***************************************************************************)
(* Paths: a path is a sequence of parts, written out by PathStr.           *)
(***************************************************************************)
RECURSIVE PathStr(_)
PathStr(p) == IF p = <<>> THEN "" ELSE Head(p) \o PathStr(Tail(p))

endsWith(p, suffix) == p # <<>> /\ p[Len(p)] = suffix

(***************************************************************************)
(* updateKtx2Preview                                                       *)
(***************************************************************************)
Headers ==
    [levelCount : 0..MaxCount, layerCount : 0..MaxCount,
     faceCount : 0..MaxCount, pixelDepth : 0..MaxCount]

Indices == [level : 0..MaxIndex, layer : 0..MaxIndex,
            face : 0..MaxIndex, depth : 0..MaxIndex]

isCubemap(header) == header.faceCount > 1

extractPathOf(previewPath) ==
    IF endsWith(previewPath, ".exr") THEN previewPath
    ELSE Append(previewPath, ".exr")

\* faulty variant: "if" instead of "else if", so a cubemap also gets --depth
FaceDepthFlags_DepthForCubemap(header, selection) ==
    (IF isCubemap(header) THEN <<"--face", ToString(selection.face)>> ELSE <<>>)
    \o (IF header.pixelDepth > 1 THEN <<"--depth", ToString(selection.depth)>>
        ELSE <<>>)

\* the face/depth part of the command (lines 508-516)
FaceDepthFlags(header, selection) ==
    IF isCubemap(header) THEN <<"--face", ToString(selection.face)>>
    ELSE IF header.pixelDepth > 1 THEN <<"--depth", ToString(selection.depth)>>
    ELSE <<>>

\* faulty variant: the layer is passed when there is a single layer
LayerFlags_SingleLayer(header, selection) ==
    IF header.layerCount > 0 THEN <<"--layer", ToString(selection.layer)>>
    ELSE <<>>

\* the layer part of the command (lines 518-521)
LayerFlags(header, selection) ==
    IF header.layerCount > 1 THEN <<"--layer", ToString(selection.layer)>>
    ELSE <<>>

\* faulty variant: the level of the initial render, whatever is selected
ExtractCmd_LevelZero(ktx2Path, previewPath, selection, header) ==
    <<"ktx", "extract", "--level", "0">>
        \o FaceDepthFlags(header, selection)
        \o LayerFlags(header, selection)
        \o <<PathStr(ktx2Path), PathStr(extractPathOf(previewPath))>>

\* cmd, lines 505-523
ExtractCmd(ktx2Path, previewPath, selection, header) ==
    <<"ktx", "extract", "--level", ToString(selection.level)>>
        \o FaceDepthFlags(header, selection)
        \o LayerFlags(header, selection)
        \o <<PathStr(ktx2Path), PathStr(extractPathOf(previewPath))>>

\* fallbackCmd, line 537
FallbackCmd(ktx2Path, previewPath, selection) ==
    <<"ktx", "extract", "--level", ToString(selection.level),
      "--face", ToString(selection.face),
      PathStr(ktx2Path), PathStr(extractPathOf(previewPath))>>

\* the call up to its first await: the primary command is started
updateKtx2Preview(ktx2Path, previewPath, selection, header) ==
    [pc |-> "primary", ktx2Path |-> ktx2Path, previewPath |-> previewPath,
     selection |-> selection, header |-> header,
     cmds |-> <<ExtractCmd(ktx2Path, previewPath, selection, header)>>,
     exits |-> <<>>, error |-> "none"]

\* faulty variant: the fallback is tried for every header
PrimaryExit_AlwaysFallback(u, ok) ==
    IF ok THEN [u EXCEPT !.pc = "resolved", !.exits = Append(@, ok)]
    ELSE [u EXCEPT !.pc = "fallback", !.exits = Append(@, ok),
                   !.cmds = Append(@, FallbackCmd(u.ktx2Path, u.previewPath,
                                                  u.selection))]

\* the callback of the primary cp.exec, lines 529-551
PrimaryExit(u, ok) ==
    IF ok THEN [u EXCEPT !.pc = "resolved", !.exits = Append(@, ok)]
    ELSE IF isCubemap(u.header)
         THEN [u EXCEPT !.pc = "fallback", !.exits = Append(@, ok),
                        !.cmds = Append(@, FallbackCmd(u.ktx2Path, u.previewPath,
                                                       u.selection))]
         ELSE [u EXCEPT !.pc = "rejected", !.exits = Append(@, ok),
                        !.error = "error"]

\* the callback of the fallback cp.exec, lines 538-544
FallbackExit(u, ok) ==
    IF ok THEN [u EXCEPT !.pc = "resolved", !.exits = Append(@, ok)]
    ELSE [u EXCEPT !.pc = "rejected", !.exits = Append(@, ok),
                   !.error = "fallbackError"]

(***************************************************************************)
(* adjustExposure                                                          *)
(***************************************************************************)
ExposureMin == -4   \* <input type="range" id="exposure" min="-4" ...>
ExposureMax == 4    \* <input type="range" id="exposure" ... max="4" ...>

\* faulty variant: the arguments of Math.pow swapped
pow2_Swapped(exposure) == <<exposure * exposure, 1>>

\* Math.pow(2, exposure) for a whole number of stops, as the fraction <<n, d>>
RECURSIVE pow2(_)
pow2(exposure) ==
    IF exposure = 0 THEN <<1, 1>>
    ELSE IF exposure > 0
         THEN LET r == pow2(exposure - 1) IN <<2 * r[1], r[2]>>
         ELSE LET r == pow2(exposure + 1) IN <<r[1], 2 * r[2]>>

RECURSIVE Digits(_)
Digits(n) == IF n < 10 THEN 1 ELSE 1 + Digits(n \div 10)

RECURSIVE Zeros(_)
Zeros(k) == IF k <= 0 THEN "" ELSE "0" \o Zeros(k - 1)

\* the k for which d = 2^k
RECURSIVE Log2(_)
Log2(d) == IF d <= 1 THEN 0 ELSE 1 + Log2(d \div 2)

\* `${exposureVal}`: Number-to-string of n/d, d a power of two and n < d or
\* d = 1: an integer prints as its digits, 1/2^k as "0." and the k digits of 5^k
NumberToString(q) ==
    IF q[2] = 1 THEN ToString(q[1])
    ELSE LET k == Log2(q[2])
             m == q[1] * 5^k
         IN  "0." \o Zeros(k - Digits(m)) \o ToString(m)

NoTonemapping == "No Tonemapping"

\* faulty variant: the special case of line 197 is missing
TonemapCmd_NoSpecialCase(inputPath, outputPath, exposureVal, display, view) ==
    <<"oiiotool", PathStr(inputPath), "--mulc", NumberToString(exposureVal),
      "--ociodisplay", display, view, "-o", PathStr(outputPath)>>

\* the command of lines 200 and 209
TonemapCmd(inputPath, outputPath, exposureVal, display, view) ==
    IF view = NoTonemapping
    THEN <<"oiiotool", PathStr(inputPath), "--mulc", NumberToString(exposureVal),
           "--colorconvert", "lin_rec709", "sRGB", "-o", PathStr(outputPath)>>
    ELSE <<"oiiotool", PathStr(inputPath), "--mulc", NumberToString(exposureVal),
           "--ociodisplay", display, view, "-o", PathStr(outputPath)>>

\* the call up to its await: the one command is started (lines 190-213)
adjustExposure(inputPath, outputPath, exposure, display, view) ==
    [pc |-> "running", inputPath |-> inputPath, outputPath |-> outputPath,
     exposure |-> exposure, display |-> display, view |-> view,
     exposureVal |-> pow2(exposure),
     cmds |-> <<TonemapCmd(inputPath, outputPath, pow2(exposure), display, view)>>,
     exits |-> <<>>]

\* runCommand's callback (lines 235-241): the promise settles
TonemapExit(a, ok) ==
    [a EXCEPT !.pc = IF ok THEN "resolved" ELSE "rejected",
              !.exits = Append(@, ok)]

(***************************************************************************)
(* parseColorConfigInfo, getColorConfigInfo                                *)
(*                                                                         *)
(* The text printed by "oiiotool --colorconfiginfo" is a sequence of lines *)
(* and the line terminator it was written with.  A line is                 *)
(*   known    a line containing 'Known displays:'                          *)
(*   named    a line containing 'Named transforms:'                        *)
(*   display  '    - "<name>"' followed by the default marker when star    *)
(*   views    '      views: ' followed by the items, separated by ', ';    *)
(*            an item is '"<name>"' (quoted) or '<name>', followed by      *)
(*            the default marker when star                                 *)
(*   other    any other line                                               *)
(* A name is a sequence of words, so that the text of a name can be        *)
(* searched as String.includes searches it.                                *)
(***************************************************************************)
\* the default marker: an asterisk in parentheses
StarText == "(" \o "*)"

Line(kind, name, star, items) ==
    [kind |-> kind, name |-> name, star |-> star, items |-> items]

KnownLine == Line("known", <<>>, FALSE, <<>>)
NamedLine == Line("named", <<>>, FALSE, <<>>)
OtherLine == Line("other", <<>>, FALSE, <<>>)

\* index of the first line of the kind at or after from, 0 when there is none
RECURSIVE IndexOfKind(_, _, _)
IndexOfKind(lines, kind, from) ==
    IF from > Len(lines) THEN 0
    ELSE IF lines[from].kind = kind THEN from
    ELSE IndexOfKind(lines, kind, from + 1)

\* output.split('Known displays:')[1]?.split('Named transforms:')[0], line 1386
displaySection(lines) ==
    LET k == IndexOfKind(lines, "known", 1)
    IN  IF k = 0 THEN [defined |-> FALSE, lines |-> <<>>]
        ELSE LET k2 == IndexOfKind(lines, "known", k + 1)
                 part == SubSeq(lines, k + 1,
                                IF k2 = 0 THEN Len(lines) ELSE k2 - 1)
                 n == IndexOfKind(part, "named", 1)
             IN  [defined |-> TRUE,
                  lines |-> IF n = 0 THEN part ELSE SubSeq(part, 1, n - 1)]

\* the text matched by the view pattern of line 1401 for a quoted item, as
\* words: the quoted name and the marker when there is one
viewMatchText(item) ==
    <<"\"">> \o item.name \o <<"\"">> \o (IF item.star THEN <<StarText>> ELSE <<>>)

\* faulty variant: no view is ever reported as the default
viewOf_NeverDefault(item) == [name |-> item.name, isDefault |-> FALSE]

\* lines 1403-1407: the name between the quotes, and
\* isViewDefault = viewMatch.includes(marker)
viewOf(item) ==
    [name |-> item.name, isDefault |-> StarText \in Range(viewMatchText(item))]

\* viewsLine.match(view pattern) || [], mapped (lines 1401-1407):
\* only quoted items match
RECURSIVE viewsOf(_)
viewsOf(items) ==
    IF items = <<>> THEN <<>>
    ELSE (IF Head(items).quoted THEN <<viewOf(Head(items))>> ELSE <<>>)
         \o viewsOf(Tail(items))

\* displayRegex, line 1392, tried at line i: a display line that ends in "\n"
\* right after the name or the marker, and a views line with at least one
\* character after 'views: ' on the next line
displayRegexMatches(lines, eol, i) ==
    /\ lines[i].kind = "display"
    /\ eol = "LF"
    /\ i < Len(lines)
    /\ lines[i + 1].kind = "views"
    /\ lines[i + 1].items # <<>>

\* the while loop of lines 1395-1410, from line i on
RECURSIVE matchLoop(_, _, _)
matchLoop(lines, eol, i) ==
    IF i > Len(lines) THEN <<>>
    ELSE IF displayRegexMatches(lines, eol, i)
         THEN <<[name |-> lines[i].name, isDefault |-> lines[i].star,
                 views |-> viewsOf(lines[i + 1].items)]>>
              \o matchLoop(lines, eol, i + 2)
         ELSE matchLoop(lines, eol, i + 1)

\* lines 1383-1413
parseColorConfigInfo(output) ==
    LET section == displaySection(output.lines)
    IN  IF ~section.defined \/ section.lines = <<>> THEN <<>>
        ELSE matchLoop(section.lines, output.eol, 1)

\* the fallback of lines 1425-1431
FallbackDisplays ==
    <<[name |-> <<"sRGB - Display">>, isDefault |-> TRUE,
       views |-> <<[name |-> <<"ACES 1.0 - SDR Video">>, isDefault |-> TRUE]>>]>>

\* getColorConfigInfo up to its await: the query is started (line 1420)
getColorConfigInfo(output) ==
    [pc |-> "running", output |-> output,
     cmds |-> <<<<"oiiotool", "--colorconfiginfo">>>>, exits |-> <<>>,
     result |-> <<>>]

\* the query exits: its output is parsed, or the fallback is returned
ColorConfigExit(c, ok) ==
    [c EXCEPT !.pc = "done", !.exits = Append(@, ok),
              !.result = IF ok THEN parseColorConfigInfo(c.output)
                         ELSE FallbackDisplays]

(***************************************************************************)
(* getKtx2Info                                                             *)
(*                                                                         *)
(* What "ktx info" prints is one of                                        *)
(*   json     the JSON text of an object whose header is given             *)
(*   noisy    validation messages without braces around such a JSON text   *)
(*   null     JSON text of a value that is no object                       *)
(*   braces   text with an opening and a later closing brace, the text     *)
(*            between them no JSON                                         *)
(*   garbage  text without braces that is no JSON (the empty text too)     *)
(***************************************************************************)
NoHeader == [levelCount |-> 0, layerCount |-> 0, faceCount |-> 0, pixelDepth |-> 0]

Text(kind, header) == [kind |-> kind, header |-> header]

\* JSON.parse: the value, or a SyntaxError
JSONparse(text) ==
    IF text.kind = "json" THEN [threw |-> FALSE, kind |-> "object", header |-> text.header]
    ELSE IF text.kind = "null" THEN [threw |-> FALSE, kind |-> "null", header |-> NoHeader]
    ELSE [threw |-> TRUE, kind |-> "none", header |-> NoHeader]

\* infoJson.match(/\{[\s\S]*\}/): from the first opening to the last closing
\* brace, or no match
jsonMatch(text) ==
    IF text.kind = "noisy" THEN [found |-> TRUE, text |-> Text("json", text.header)]
    ELSE IF text.kind = "braces" THEN [found |-> TRUE, text |-> Text("garbage", NoHeader)]
    ELSE IF text.kind = "json" THEN [found |-> TRUE, text |-> text]
    ELSE [found |-> FALSE, text |-> text]

\* the inner try/catch, lines 582-592
parseInfoJson(infoJson) ==
    LET first == JSONparse(infoJson)
        m == jsonMatch(infoJson)
    IN  IF ~first.threw THEN first
        ELSE IF m.found THEN JSONparse(m.text)
        ELSE first

\* the minimal info of lines 596-607
MinimalInfo ==
    [kind |-> "object",
     header |-> [levelCount |-> 1, layerCount |-> 1, faceCount |-> 1, pixelDepth |-> 1]]

\* faulty variant: a parse error is not caught by the outer catch
infoResult_ParseErrorEscapes(k, parsed) ==
    IF parsed.threw THEN [k EXCEPT !.pc = "rejected"]
    ELSE [k EXCEPT !.pc = "done", !.result = [kind |-> parsed.kind, header |-> parsed.header]]

\* lines 582-609 once infoJson is there: the parsed value, or the minimal info
\* from the outer catch
infoResult(k, parsed) ==
    IF parsed.threw THEN [k EXCEPT !.pc = "done", !.result = MinimalInfo]
    ELSE [k EXCEPT !.pc = "done", !.result = [kind |-> parsed.kind, header |-> parsed.header]]

InfoCmd(filePath) == <<"ktx", "info", "--format", "json", PathStr(filePath)>>
InfoFallbackCmd(filePath) ==
    <<"ktx", "info", "--format", "json", "--format-json:validate=false",
      PathStr(filePath)>>

\* getKtx2Info up to its await: the first command is started (line 565);
\* stdout and fallbackStdout are what the two commands print if they succeed
getKtx2Info(filePath, stdout, fallbackStdout) ==
    [pc |-> "info", filePath |-> filePath, stdout |-> stdout,
     fallbackStdout |-> fallbackStdout, cmds |-> <<InfoCmd(filePath)>>,
     exits |-> <<>>, result |-> MinimalInfo]

\* faulty variant: the second form is run after the first whatever it did
InfoExit_SecondAlways(k, ok) ==
    [k EXCEPT !.pc = "fallback", !.exits = Append(@, ok),
              !.cmds = Append(@, InfoFallbackCmd(k.filePath))]

\* the callback of the first cp.exec, lines 565-579
InfoExit(k, ok) ==
    IF ok THEN infoResult([k EXCEPT !.exits = Append(@, ok)], parseInfoJson(k.stdout))
    ELSE [k EXCEPT !.pc = "fallback", !.exits = Append(@, ok),
                   !.cmds = Append(@, InfoFallbackCmd(k.filePath))]

\* the callback of the second cp.exec, lines 569-575; a failure rejects the
\* promise, which the outer catch turns into the minimal info
InfoFallbackExit(k, ok) ==
    IF ok THEN infoResult([k EXCEPT !.exits = Append(@, ok)],
                          parseInfoJson(k.fallbackStdout))
    ELSE [k EXCEPT !.pc = "done", !.exits = Append(@, ok), !.result = MinimalInfo]

(***************************************************************************)
(* Specification of one updateKtx2Preview call on any header and selection *)
(***************************************************************************)
KtxPath == <<"cube.ktx2">>
PreviewPaths == { <<"preview_", "cube.ktx2", ".png">>,
                  <<"preview_", "cube.ktx2", ".exr">> }

NoCall == [pc |-> "idle"]

\* no session: the specifications of a single call leave the session alone
NoPeer == [pc |-> "none"]

NoSession ==
    /\ me = 1
    /\ peer = NoPeer
    /\ doc = [dir |-> "", base |-> "", ext |-> ""]
    /\ pc = "none"
    /\ colorDisplays = <<>>
    /\ info = [kind |-> "none"]
    /\ web = [html |-> "unset"]
    /\ ui = [kind |-> "none"]
    /\ handlers = <<>>
    /\ fs = <<>>
    /\ notes = <<>>
    /\ log = <<>>

ExtractInit ==
    /\ \E h \in Headers, s \in Indices, p \in PreviewPaths :
          ux = [pc |-> "call", ktx2Path |-> KtxPath, previewPath |-> p,
                selection |-> s, header |-> h, cmds |-> <<>>, exits |-> <<>>,
                error |-> "none"]
    /\ ae = NoCall
    /\ cc = NoCall
    /\ ki = NoCall
    /\ NoSession

ExtractCall ==
    /\ ux.pc = "call"
    /\ ux' = updateKtx2Preview(ux.ktx2Path, ux.previewPath, ux.selection, ux.header)
    /\ UNCHANGED notUx

ExtractPrimaryExit ==
    /\ ux.pc = "primary"
    /\ \E ok \in BOOLEAN : ux' = PrimaryExit(ux, ok)
    /\ UNCHANGED notUx

ExtractFallbackExit ==
    /\ ux.pc = "fallback"
    /\ \E ok \in BOOLEAN : ux' = FallbackExit(ux, ok)
    /\ UNCHANGED notUx

ExtractNext == ExtractCall \/ ExtractPrimaryExit \/ ExtractFallbackExit

SpecExtract == ExtractInit /\ [][ExtractNext]_vars

(***************************************************************************)
(* Specification of one adjustExposure call on any exposure, display, view *)
(***************************************************************************)
DisplayNames == {"sRGB - Display", "Rec.1886 Rec.709 - Display"}
ViewNames == {NoTonemapping, "ACES 1.0 - SDR Video", "Un-tone-mapped", "Raw"}
ExrPath == <<"foo.exr">>

TonemapInit ==
    /\ \E e \in ExposureMin..ExposureMax, d \in DisplayNames, v \in ViewNames,
          i \in {ExrPath, <<"preview_", "cube.ktx2", ".png", ".exr">>},
          o \in PreviewPaths :
          ae = [pc |-> "call", inputPath |-> i, outputPath |-> o,
                exposure |-> e, display |-> d, view |-> v,
                exposureVal |-> <<0, 1>>, cmds |-> <<>>, exits |-> <<>>]
    /\ ux = NoCall
    /\ cc = NoCall
    /\ ki = NoCall
    /\ NoSession

TonemapCall ==
    /\ ae.pc = "call"
    /\ ae' = adjustExposure(ae.inputPath, ae.outputPath, ae.exposure,
                            ae.display, ae.view)
    /\ UNCHANGED notAe

TonemapProcessExit ==
    /\ ae.pc = "running"
    /\ \E ok \in BOOLEAN : ae' = TonemapExit(ae, ok)
    /\ UNCHANGED notAe

TonemapNext == TonemapCall \/ TonemapProcessExit

SpecTonemap == TonemapInit /\ [][TonemapNext]_vars

(***************************************************************************)
(* Specification of one getColorConfigInfo call on any output of the query *)
(***************************************************************************)
DisplayName(i) == <<"Display", ToString(i)>>
ViewName(j) == <<"View", ToString(j)>>

\* the items a views line can list in place j
ItemsAt(j) ==
    { [name |-> n, star |-> st, quoted |-> TRUE] :
          n \in {ViewName(j), ViewName(j) \o <<StarText>>}, st \in BOOLEAN }
    \cup { [name |-> ViewName(j), star |-> FALSE, quoted |-> FALSE] }

ItemLists ==
    UNION { { f \in [1..n -> UNION { ItemsAt(j) : j \in 1..n }] :
                \A j \in 1..n : f[j] \in ItemsAt(j) } : n \in 0..MaxViews }

\* the display entries of a block: for each a star and a list of items
EntryLists ==
    UNION { [1..n -> [star : BOOLEAN, items : ItemLists]] : n \in 0..MaxDisplays }

RECURSIVE EntryLines(_, _)
EntryLines(entries, i) ==
    IF i > Len(entries) THEN <<>>
    ELSE <<Line("display", DisplayName(i), entries[i].star, <<>>),
           Line("views", <<>>, FALSE, entries[i].items)>>
         \o EntryLines(entries, i + 1)

\* what the tool prints: color spaces, then (when hasKnown) the displays
\* block, then (when hasNamed) the named transforms
OutputOf(entries, hasKnown, hasNamed, eol) ==
    [eol |-> eol,
     lines |-> <<OtherLine>>
               \o (IF hasKnown THEN <<KnownLine>> ELSE <<>>)
               \o EntryLines(entries, 1)
               \o (IF hasNamed THEN <<NamedLine, OtherLine>> ELSE <<>>)]

Outputs ==
    { OutputOf(e, k, n, eol) :
          e \in EntryLists, k \in BOOLEAN, n \in BOOLEAN, eol \in {"LF", "CRLF"} }

ColorInit ==
    /\ \E o \in Outputs :
          cc = [pc |-> "call", output |-> o, cmds |-> <<>>, exits |-> <<>>,
                result |-> <<>>]
    /\ ux = NoCall
    /\ ae = NoCall
    /\ ki = NoCall
    /\ NoSession

ColorCall ==
    /\ cc.pc = "call"
    /\ cc' = getColorConfigInfo(cc.output)
    /\ UNCHANGED notCc

ColorQueryExit ==
    /\ cc.pc = "running"
    /\ \E ok \in BOOLEAN : cc' = ColorConfigExit(cc, ok)
    /\ UNCHANGED notCc

ColorNext == ColorCall \/ ColorQueryExit

SpecColor == ColorInit /\ [][ColorNext]_vars

(***************************************************************************)
(* Specification of one getKtx2Info call on any output of "ktx info"       *)
(***************************************************************************)
InfoHeaders ==
    { h \in Headers : h.levelCount = h.layerCount /\ h.faceCount = h.pixelDepth }

Texts ==
    { Text(k, h) : k \in {"json", "noisy"}, h \in InfoHeaders }
    \cup { Text(k, NoHeader) : k \in {"null", "braces", "garbage"} }

InfoInit ==
    /\ \E t1 \in Texts, t2 \in Texts :
          ki = [pc |-> "call", filePath |-> KtxPath, stdout |-> t1,
                fallbackStdout |-> t2, cmds |-> <<>>, exits |-> <<>>,
                result |-> MinimalInfo]
    /\ ux = NoCall
    /\ ae = NoCall
    /\ cc = NoCall
    /\ NoSession

InfoCall ==
    /\ ki.pc = "call"
    /\ ki' = getKtx2Info(ki.filePath, ki.stdout, ki.fallbackStdout)
    /\ UNCHANGED notKi

InfoFirstExit ==
    /\ ki.pc = "info"
    /\ \E ok \in BOOLEAN : ki' = InfoExit(ki, ok)
    /\ UNCHANGED notKi

InfoSecondExit ==
    /\ ki.pc = "fallback"
    /\ \E ok \in BOOLEAN : ki' = InfoFallbackExit(ki, ok)
    /\ UNCHANGED notKi

InfoNext == InfoCall \/ InfoFirstExit \/ InfoSecondExit

SpecInfo == InfoInit /\ [][InfoNext]_vars

(***************************************************************************)
(* A preview session: the catalog as the host and the generated html use   *)
(* it                                                                      *)
(***************************************************************************)
\* a name as the text it stands for
RECURSIVE NameStr(_)
NameStr(name) ==
    IF name = <<>> THEN ""
    ELSE IF Len(name) = 1 THEN name[1]
    ELSE name[1] \o " " \o NameStr(Tail(name))

\* Array.find(x => x.isDefault) from index i on: the index found, 0 for
\* undefined
RECURSIVE findDefault(_, _)
findDefault(list, i) ==
    IF i > Len(list) THEN 0
    ELSE IF list[i].isDefault THEN i
    ELSE findDefault(list, i + 1)

\* faulty variant: the first display, whatever is marked
defaultDisplay_First(displays) == IF Len(displays) > 0 THEN 1 ELSE 0

\* this.colorDisplays.find(d => d.isDefault) || this.colorDisplays[0],
\* lines 284, 349, 627: an index, 0 for undefined
defaultDisplay(displays) ==
    IF findDefault(displays, 1) # 0 THEN findDefault(displays, 1)
    ELSE IF Len(displays) > 0 THEN 1 ELSE 0

\* faulty variant: without a marked view the last view is taken
defaultView_Last(displays) ==
    LET d == defaultDisplay(displays)
    IN  IF d = 0 THEN 0
        ELSE IF findDefault(displays[d].views, 1) # 0
             THEN findDefault(displays[d].views, 1)
        ELSE Len(displays[d].views)

\* defaultDisplay?.views.find(v => v.isDefault) || defaultDisplay?.views[0],
\* lines 285, 350: an index into the views of the default display
defaultView(displays) ==
    LET d == defaultDisplay(displays)
    IN  IF d = 0 THEN 0
        ELSE IF findDefault(displays[d].views, 1) # 0
             THEN findDefault(displays[d].views, 1)
        ELSE IF Len(displays[d].views) > 0 THEN 1 ELSE 0

\* defaultDisplay?.name || 'sRGB - Display', lines 292, 357
initialDisplayName(displays) ==
    IF defaultDisplay(displays) = 0 THEN "sRGB - Display"
    ELSE NameStr(displays[defaultDisplay(displays)].name)

\* defaultView?.name || 'ACES 1.0 - SDR Video', lines 293, 358
initialViewName(displays) ==
    IF defaultView(displays) = 0 THEN "ACES 1.0 - SDR Video"
    ELSE NameStr(displays[defaultDisplay(displays)].views[defaultView(displays)].name)

\* the <option> elements of the display dropdown, lines 622-624, 912-914
displaysOptions(displays) ==
    [i \in 1..Len(displays) |->
        [value |-> NameStr(displays[i].name), selected |-> displays[i].isDefault]]

\* the <option> elements for the views of one display, after the
\* "No Tonemapping" option (lines 630-634, 833-848, 924-928, 1280-1296)
viewsOptions(views, wasNoTonemappingSelected) ==
    <<[value |-> NoTonemapping, selected |-> wasNoTonemappingSelected]>>
    \o [j \in 1..Len(views) |->
           [value |-> NameStr(views[j].name),
            selected |-> ~wasNoTonemappingSelected /\ views[j].isDefault]]

\* the value of a <select>: that of the last option with the selected
\* attribute, else that of the first option, else the empty string
RECURSIVE lastSelected(_, _)
lastSelected(options, i) ==
    IF i = 0 THEN 0
    ELSE IF options[i].selected THEN i
    ELSE lastSelected(options, i - 1)

SelectValue(options) ==
    IF options = <<>> THEN ""
    ELSE IF lastSelected(options, Len(options)) # 0
         THEN options[lastSelected(options, Len(options))].value
    ELSE options[1].value

OptionValues(options) == [i \in 1..Len(options) |-> options[i].value]

\* the state of the script of getHtmlForWebview when it has run, lines 812-823
ExrUi(displays) ==
    LET dopts == displaysOptions(displays)
        vopts == IF defaultDisplay(displays) = 0
                 THEN <<[value |-> NoTonemapping, selected |-> FALSE]>>
                 ELSE viewsOptions(displays[defaultDisplay(displays)].views, FALSE)
    IN  [kind |-> "exr",
         lastExposure |-> 0,
         lastDisplay |-> SelectValue(dopts),
         lastView |-> SelectValue(vopts),
         displayOptions |-> OptionValues(dopts),
         viewOptions |-> OptionValues(vopts)]

\* the defaultDisplay of getHtmlForKtx2Webview, lines 917-921
ktx2DefaultDisplay(displays) ==
    IF defaultDisplay(displays) = 0 THEN FallbackDisplays[1]
    ELSE displays[defaultDisplay(displays)]

\* defaultViewName, lines 931-932
defaultViewName(displays) ==
    LET d == ktx2DefaultDisplay(displays)
    IN  IF findDefault(d.views, 1) # 0 THEN NameStr(d.views[findDefault(d.views, 1)].name)
        ELSE IF Len(d.views) > 0 THEN NameStr(d.views[1].name)
        ELSE "ACES 1.0 - SDR Video"

\* faulty variant: one button more than the count
CountOr1_OneMore(n) == n + 1

\* header.levelCount || 1 and its like, lines 906-909
CountOr1(n) == IF n = 0 THEN 1 ELSE n

\* the state of the script of getHtmlForKtx2Webview when it has run,
\* lines 1172-1181, 1267-1271, and the buttons of lines 1154-1163; clicked
\* is history: the value of the button clicked last in each group, the
\* values the page was generated with before any click
Ktx2Ui(displays, header, selection) ==
    LET dopts == displaysOptions(displays)
        vopts == viewsOptions(ktx2DefaultDisplay(displays).views, FALSE)
    IN  [kind |-> "ktx2",
         selection |-> [level |-> selection.level, layer |-> selection.layer,
                        face |-> selection.face, depth |-> selection.depth,
                        exposure |-> 0,
                        display |-> NameStr(ktx2DefaultDisplay(displays).name),
                        view |-> defaultViewName(displays)],
         clicked |-> selection,
         buttons |-> [level |-> CountOr1(header.levelCount),
                      layer |-> CountOr1(header.layerCount),
                      face |-> CountOr1(header.faceCount),
                      depth |-> CountOr1(header.pixelDepth)],
         displaySelect |-> SelectValue(dopts),
         viewSelect |-> SelectValue(vopts),
         displayOptions |-> OptionValues(dopts),
         viewOptions |-> OptionValues(vopts)]

NoUi == [kind |-> "none"]

(***************************************************************************)
(* A preview session: documents, temporary files, what the tools print     *)
(***************************************************************************)
\* a document: the directory part of its path (left empty for the documents
\* of a single session, where it plays no part), its base name and the
\* extension of the base name
Docs ==
    { [dir |-> "", base |-> "foo.exr", ext |-> ".exr"],
      [dir |-> "", base |-> "sky.HDR", ext |-> ".HDR"],
      [dir |-> "", base |-> "cube.ktx2", ext |-> ".ktx2"],
      [dir |-> "", base |-> "notes.txt", ext |-> ".txt"] }

\* path.extname(...).toLowerCase(), line 258
toLowerCase(ext) ==
    CASE ext = ".HDR" -> ".hdr" [] ext = ".EXR" -> ".exr"
      [] ext = ".KTX2" -> ".ktx2" [] OTHER -> ext

fsPath(d) == IF d.dir = "" THEN <<d.base>> ELSE <<d.dir, d.base>>
\* faulty variant: the whole path of the document goes into the name
previewPathOf_FullPath(d) == <<"preview_", d.dir, d.base, ".png">>

\* path.join(tempDir, `preview_${path.basename(document.uri.fsPath)}.png`),
\* line 232, without the temporary directory that all paths share
previewPathOf(d) ==
    <<"preview_", d.base, ".png">>

displayPathOf(d) == Append(previewPathOf(d), "_display.png")       \* line 346

TempPaths(d) ==
    { PathStr(previewPathOf(d)), PathStr(extractPathOf(previewPathOf(d))),
      PathStr(displayPathOf(d)) }

\* a temporary file: whether it exists, which call wrote it (0 for
\* resolveCustomEditor, n for the n-th message) of which session and, for
\* a tonemapped image, which call of which session wrote the file it was
\* made from
Absent == [exists |-> FALSE, by |-> 0, from |-> 0, of |-> 0, src |-> 0]
File(by, from) == [exists |-> TRUE, by |-> by, from |-> from, of |-> me, src |-> me]

\* a file, or the image read from it, that a tool made from the file input:
\* from and src are the call and the session that wrote input
Made(by, input) ==
    [exists |-> TRUE, by |-> by, from |-> input.by, of |-> me, src |-> input.of]

QuotedItem(j, star) == [name |-> ViewName(j), star |-> star, quoted |-> TRUE]

\* the outputs of the color-config query a session is run with
SessionOutputs ==
    { OutputOf(e, TRUE, TRUE, "LF") :
        e \in { <<[star |-> FALSE, items |-> <<QuotedItem(1, TRUE), QuotedItem(2, FALSE)>>],
                  [star |-> TRUE, items |-> <<QuotedItem(1, FALSE), QuotedItem(2, TRUE)>>]>>,
                <<[star |-> FALSE, items |-> <<QuotedItem(1, FALSE), QuotedItem(2, FALSE)>>],
                  [star |-> FALSE, items |-> <<QuotedItem(1, TRUE)>>]>>,
                <<>> } }

\* the headers of the .ktx2 files a session is run with: a cubemap with mip
\* levels, a cubemap array whose header also has a depth, a volume with mip
\* levels
CubeHeader == [levelCount |-> 2, layerCount |-> 0, faceCount |-> 6, pixelDepth |-> 0]
CubeArrayHeader == [levelCount |-> 1, layerCount |-> 2, faceCount |-> 2, pixelDepth |-> 2]
VolumeHeader == [levelCount |-> 2, layerCount |-> 1, faceCount |-> 1, pixelDepth |-> 2]

\* what the two forms of "ktx info" print for the document of a session
SessionTexts ==
    { <<Text("json", CubeHeader), Text("json", CubeHeader)>>,
      <<Text("garbage", NoHeader), Text("noisy", CubeArrayHeader)>>,
      <<Text("json", VolumeHeader), Text("braces", NoHeader)>>,
      <<Text("null", NoHeader), Text("garbage", NoHeader)>> }

Zero == [level |-> 0, layer |-> 0, face |-> 0, depth |-> 0]         \* line 339

\* info?.header || {}, line 499
headerOf(i) == IF i.kind = "object" THEN i.header ELSE NoHeader

Started(cmd) == Append(log, cmd)
\* faulty variant: the error is notified by the inner and by the outer catch
Notified_Twice(by, text) ==
    Append(Append(notes, [by |-> by, text |-> text]), [by |-> by, text |-> text])

Notified(by, text) == Append(notes, [by |-> by, text |-> text])

\* the error panel of lines 374-403
ErrorPanel == [html |-> "error", image |-> Absent, posted |-> <<>>]

(***************************************************************************)
(* resolveCustomEditor                                                     *)
(***************************************************************************)
Init ==
    /\ me = 1
    /\ peer = NoPeer
    /\ doc \in Docs
    /\ pc = "start"
    /\ \E o \in SessionOutputs :
          cc = [pc |-> "call", output |-> o, cmds |-> <<>>, exits |-> <<>>,
                result |-> <<>>]
    /\ IF toLowerCase(doc.ext) = ".ktx2"
       THEN \E t \in SessionTexts :
               ki = [pc |-> "call", filePath |-> fsPath(doc), stdout |-> t[1],
                     fallbackStdout |-> t[2], cmds |-> <<>>, exits |-> <<>>,
                     result |-> MinimalInfo]
       ELSE ki = NoCall
    /\ ux = NoCall
    /\ ae = NoCall
    /\ colorDisplays = <<>>
    /\ info = [kind |-> "none"]
    /\ web = [html |-> "unset", image |-> Absent, posted |-> <<>>]
    /\ ui = NoUi
    /\ handlers = <<>>
    /\ fs = [p \in TempPaths(doc) |-> Absent]
    /\ notes = <<>>
    /\ log = <<>>

\* lines 226-255: up to the await of getColorConfigInfo
OpenStart ==
    /\ pc = "start"
    /\ cc' = getColorConfigInfo(cc.output)
    /\ pc' = "colorconfig"
    /\ log' = Started(<<"oiiotool", "--colorconfiginfo">>)
    /\ UNCHANGED <<ux, ae, ki, doc, colorDisplays, info, web, ui, handlers, fs, notes, me, peer>>

\* lines 255-280, 334-336, 485-490: the catalog is stored and the branch of
\* the file type runs up to its first await
OpenColorConfigExit ==
    /\ pc = "colorconfig"
    /\ \E ok \in BOOLEAN :
          /\ cc' = ColorConfigExit(cc, ok)
          /\ colorDisplays' = cc'.result
    /\ CASE toLowerCase(doc.ext) = ".exr" ->
              /\ pc' = "exrinfo"
              /\ log' = Started(<<"exrinfo", PathStr(fsPath(doc))>>)
              /\ UNCHANGED <<ki, notes>>
         [] toLowerCase(doc.ext) = ".hdr" ->
              /\ pc' = "oiioinfo"
              /\ log' = Started(<<"oiiotool", "--info", PathStr(fsPath(doc))>>)
              /\ UNCHANGED <<ki, notes>>
         [] toLowerCase(doc.ext) = ".ktx2" ->
              /\ pc' = "ktxinfo"
              /\ ki' = getKtx2Info(ki.filePath, ki.stdout, ki.fallbackStdout)
              /\ log' = Started(InfoCmd(ki.filePath))
              /\ UNCHANGED notes
         [] OTHER ->
              /\ pc' = "failed"
              /\ notes' = Notified(0, "Failed to generate preview")
              /\ UNCHANGED <<ki, log>>
    /\ UNCHANGED <<ux, ae, doc, info, web, ui, handlers, fs, me, peer>>

\* lines 266-280: exrinfo exits
OpenExrInfoExit ==
    /\ pc = "exrinfo"
    /\ \E ok \in BOOLEAN :
          IF ok
          THEN /\ pc' = "oiioinfo"
               /\ log' = Started(<<"oiiotool", "--info", PathStr(fsPath(doc))>>)
               /\ UNCHANGED notes
          ELSE /\ pc' = "failed"
               /\ notes' = Notified(0, "Failed to generate preview")
               /\ UNCHANGED log
    /\ UNCHANGED <<ux, ae, cc, ki, doc, colorDisplays, info, web, ui, handlers, fs, me, peer>>

\* lines 275-294: oiiotool --info exits; the default display and view are
\* chosen and the first tonemap is started
OpenOiioInfoExit ==
    /\ pc = "oiioinfo"
    /\ \E ok \in BOOLEAN :
          IF ok
          THEN /\ pc' = "tonemap"
               /\ ae' = adjustExposure(fsPath(doc), previewPathOf(doc), 0,
                                       initialDisplayName(colorDisplays),
                                       initialViewName(colorDisplays))
               /\ log' = Started(ae'.cmds[1])
               /\ UNCHANGED notes
          ELSE /\ pc' = "failed"
               /\ notes' = Notified(0, "Failed to generate preview")
               /\ UNCHANGED <<ae, log>>
    /\ UNCHANGED <<ux, cc, ki, doc, colorDisplays, info, web, ui, handlers, fs, me, peer>>

\* lines 287-333: the tonemap exits; the image is read, the html is set, the
\* preview file is removed and the listener is registered
OpenTonemapExit ==
    /\ pc = "tonemap"
    /\ \E ok \in BOOLEAN :
          /\ ae' = TonemapExit(ae, ok)
          /\ IF ok
             THEN /\ pc' = "rendered"
                  /\ web' = [html |-> "exr", image |-> File(0, 0), posted |-> <<>>]
                  /\ ui' = ExrUi(colorDisplays)
                  /\ fs' = [fs EXCEPT ![PathStr(previewPathOf(doc))] = Absent]
                  /\ UNCHANGED notes
             ELSE /\ pc' = "failed"
                  /\ notes' = Notified(0, "Failed to generate preview")
                  /\ UNCHANGED <<web, ui, fs>>
    /\ UNCHANGED <<ux, cc, ki, doc, colorDisplays, info, handlers, log, me, peer>>

\* what follows getKtx2Info in the .ktx2 branch, lines 336-343: the first
\* extraction is started
OpenExtractStarted(k) ==
    /\ info' = k.result
    /\ ux' = updateKtx2Preview(fsPath(doc), previewPathOf(doc), Zero, headerOf(k.result))
    /\ pc' = "extract"
    /\ log' = Started(ux'.cmds[1])

\* the first "ktx info" exits
OpenKtxInfoExit ==
    /\ pc = "ktxinfo" /\ ki.pc = "info"
    /\ \E ok \in BOOLEAN :
          /\ ki' = InfoExit(ki, ok)
          /\ IF ki'.pc = "done" THEN OpenExtractStarted(ki')
             ELSE /\ log' = Started(ki'.cmds[2])
                  /\ UNCHANGED <<info, ux, pc>>
    /\ UNCHANGED <<ae, cc, doc, colorDisplays, web, ui, handlers, fs, notes, me, peer>>

\* the second "ktx info" exits
OpenKtxInfoFallbackExit ==
    /\ pc = "ktxinfo" /\ ki.pc = "fallback"
    /\ \E ok \in BOOLEAN :
          /\ ki' = InfoFallbackExit(ki, ok)
          /\ OpenExtractStarted(ki')
    /\ UNCHANGED <<ae, cc, doc, colorDisplays, web, ui, handlers, fs, notes, me, peer>>

\* what follows updateKtx2Preview in the .ktx2 branch: lines 343-359 when it
\* resolved (the extracted file is there and the tonemap is started), lines
\* 373-407 when it rejected (the error panel), nothing while the fallback runs
OpenAfterExtract(u) ==
    CASE u.pc = "resolved" ->
            /\ fs' = [fs EXCEPT ![PathStr(extractPathOf(u.previewPath))] = File(0, 0)]
            /\ ae' = adjustExposure(extractPathOf(u.previewPath), displayPathOf(doc), 0,
                                    initialDisplayName(colorDisplays),
                                    initialViewName(colorDisplays))
            /\ pc' = "ktxtonemap"
            /\ log' = Started(ae'.cmds[1])
            /\ UNCHANGED web
      [] u.pc = "rejected" ->
            /\ web' = ErrorPanel
            /\ pc' = "rendered"
            /\ UNCHANGED <<fs, ae, log>>
      [] OTHER ->
            /\ log' = Started(u.cmds[2])
            /\ UNCHANGED <<fs, ae, pc, web>>

\* the primary "ktx extract" of the first extraction exits
OpenExtractExit ==
    /\ pc = "extract" /\ ux.pc = "primary"
    /\ \E ok \in BOOLEAN :
          /\ ux' = PrimaryExit(ux, ok)
          /\ OpenAfterExtract(ux')
    /\ UNCHANGED <<cc, ki, doc, colorDisplays, info, ui, handlers, notes, me, peer>>

\* the fallback "ktx extract" of the first extraction exits
OpenExtractFallbackExit ==
    /\ pc = "extract" /\ ux.pc = "fallback"
    /\ \E ok \in BOOLEAN :
          /\ ux' = FallbackExit(ux, ok)
          /\ OpenAfterExtract(ux')
    /\ UNCHANGED <<cc, ki, doc, colorDisplays, info, ui, handlers, notes, me, peer>>

\* lines 352-407: the first tonemap of the .ktx2 branch exits.  It can only
\* succeed if its input is there.  renderLevelInfo(info.header, ...) throws
\* when info is null, which ends in the error panel with both files left.
OpenKtxTonemapExit ==
    /\ pc = "ktxtonemap"
    /\ \E ok \in BOOLEAN :
          /\ ok => fs[PathStr(ae.inputPath)].exists
          /\ ae' = TonemapExit(ae, ok)
          /\ IF ok /\ info.kind = "object"
             THEN /\ web' = [html |-> "ktx2",
                             image |-> Made(0, fs[PathStr(ae.inputPath)]),
                             posted |-> <<>>]
                  /\ ui' = Ktx2Ui(colorDisplays, headerOf(info), Zero)
                  /\ fs' = [fs EXCEPT ![PathStr(ae.inputPath)] = Absent,
                                      ![PathStr(ae.outputPath)] = Absent]
             ELSE /\ web' = ErrorPanel
                  /\ ui' = ui
                  /\ fs' = IF ok
                           THEN [fs EXCEPT ![PathStr(ae.outputPath)] =
                                              Made(0, fs[PathStr(ae.inputPath)])]
                           ELSE fs
    /\ pc' = "rendered"
    /\ UNCHANGED <<ux, cc, ki, doc, colorDisplays, info, handlers, notes, log, me, peer>>

(***************************************************************************)
(* The messages of the UI and their handlers.  A UI event and the receipt  *)
(* of the message it posts are one step: messages are delivered in the     *)
(* order they are posted, and the listener is registered in the same       *)
(* synchronous run that sets the html.  The handler of the n-th message is *)
(* handlers[n]; a handler runs up to its next await in one step, and the   *)
(* commands it starts are those of its calls, handlers[n].ux.cmds and      *)
(* handlers[n].ae.cmds (log has those of resolveCustomEditor).             *)
(***************************************************************************)
MaxMsgs == 2        \* UI messages of one session

\* the slider values a session chooses among (whole stops within the range)
SessionStops == { e \in ExposureMin..ExposureMax : e \in {0, 2} }

Groups == {"level", "layer", "face", "depth"}

\* a || b for strings
Or(a, b) == IF a = "" THEN b ELSE a

\* faulty variant: a message received while the handler of an earlier one
\* is running waits for it, and starts nothing
Ktx2Handler_Queued(msg, clicked) ==
    [type |-> msg.type, msg |-> msg, clicked |-> clicked,
     pc |-> IF \A n \in 1..Len(handlers) : handlers[n].pc \in {"done", "failed"}
            THEN "extract" ELSE "queued",
     ux |-> IF \A n \in 1..Len(handlers) : handlers[n].pc \in {"done", "failed"}
            THEN updateKtx2Preview(fsPath(doc), previewPathOf(doc), msg.selection,
                                   headerOf(info))
            ELSE NoCall,
     ae |-> NoCall]

\* faulty variant: the handler tonemaps the file left by an earlier
\* extraction without extracting again
Ktx2Handler_TonemapOnly(msg, clicked) ==
    [type |-> msg.type, msg |-> msg, clicked |-> clicked,
     pc |-> "tonemap",
     ux |-> NoCall,
     ae |-> adjustExposure(extractPathOf(previewPathOf(doc)), displayPathOf(doc),
                           msg.selection.exposure, msg.display, msg.view)]

\* the 'extract' and 'adjustExposure' branches of the .ktx2 listener up to
\* the await inside updateKtx2Preview, lines 408-411 and 447-450
Ktx2Handler(msg, clicked) ==
    [type |-> msg.type, msg |-> msg, clicked |-> clicked,
     pc |-> "extract",
     ux |-> updateKtx2Preview(fsPath(doc), previewPathOf(doc), msg.selection,
                              headerOf(info)),
     ae |-> NoCall]

\* the listener of the .exr/.hdr branch up to the await inside
\* adjustExposure, lines 308-322
ExrHandler(msg) ==
    [type |-> msg.type, msg |-> msg, clicked |-> Zero,
     pc |-> "tonemap",
     ux |-> NoCall,
     ae |-> adjustExposure(fsPath(doc), previewPathOf(doc), msg.exposure,
                           Or(msg.display, "sRGB - Display"),
                           Or(msg.view, "ACES 1.0 - SDR Video"))]

Received(h) == handlers' = Append(handlers, h)

\* faulty variant: the indices the page was generated with are posted
sendSelection_Stale(selection) ==
    [type |-> "extract",
     selection |-> [selection EXCEPT !.level = 0, !.layer = 0, !.face = 0, !.depth = 0],
     display |-> selection.display, view |-> selection.view]

\* sendSelection, lines 1187-1195
sendSelection(selection) ==
    [type |-> "extract", selection |-> selection,
     display |-> selection.display, view |-> selection.view]

\* updateExposure, lines 1196-1204
updateExposure(selection) ==
    [type |-> "adjustExposure", exposure |-> selection.exposure,
     display |-> selection.display, view |-> selection.view,
     selection |-> selection]

\* updateImage of the .exr/.hdr page, lines 870-877
updateImage(u) ==
    [type |-> "adjustExposure", exposure |-> u.lastExposure,
     display |-> u.lastDisplay, view |-> u.lastView]

\* colorDisplays.find(d => d.name === name): an index, 0 for undefined
RECURSIVE findByName(_, _, _)
findByName(displays, name, i) ==
    IF i > Len(displays) THEN 0
    ELSE IF NameStr(displays[i].name) = name THEN i
    ELSE findByName(displays, name, i + 1)

\* the options of the view dropdown after the display was changed to name
\* while view was the current view, lines 829-848 and 1277-1296: rebuilt if
\* the display is found, left alone if not
viewOptionsAfter(displays, name, view, options) ==
    IF findByName(displays, name, 1) = 0
    THEN [i \in 1..Len(options) |-> [value |-> options[i], selected |-> options[i] = view]]
    ELSE viewsOptions(displays[findByName(displays, name, 1)].views,
                      view = NoTonemapping)

\* a click on a selector button, lines 1205-1214, and the receipt of the
\* 'extract' message it posts
Ktx2Click ==
    /\ ui.kind = "ktx2" /\ Len(handlers) < MaxMsgs
    /\ \E g \in Groups : \E v \in 0..(ui.buttons[g] - 1) :
          /\ ui' = [ui EXCEPT !.selection[g] = v, !.clicked[g] = v]
          /\ Received(Ktx2Handler(sendSelection(ui'.selection), ui'.clicked))
    /\ UNCHANGED <<ux, ae, cc, ki, doc, pc, colorDisplays, info, web, fs, notes, log, me, peer>>

\* the slider of the .ktx2 page is moved, lines 1223-1226
Ktx2ExposureChange ==
    /\ ui.kind = "ktx2" /\ Len(handlers) < MaxMsgs
    /\ \E e \in SessionStops \ {ui.selection.exposure} :
          /\ ui' = [ui EXCEPT !.selection.exposure = e]
          /\ Received(Ktx2Handler(updateExposure(ui'.selection), ui.clicked))
    /\ UNCHANGED <<ux, ae, cc, ki, doc, pc, colorDisplays, info, web, fs, notes, log, me, peer>>

\* another display is chosen on the .ktx2 page, lines 1273-1299
Ktx2DisplayChange ==
    /\ ui.kind = "ktx2" /\ Len(handlers) < MaxMsgs
    /\ \E d \in Range(ui.displayOptions) \ {ui.displaySelect} :
          LET vopts == viewOptionsAfter(colorDisplays, d, ui.selection.view,
                                        ui.viewOptions)
              found == findByName(colorDisplays, d, 1) # 0
          IN  /\ ui' = [ui EXCEPT !.displaySelect = d,
                                  !.selection.display = d,
                                  !.viewOptions = OptionValues(vopts),
                                  !.viewSelect = IF found THEN SelectValue(vopts) ELSE @,
                                  !.selection.view = IF found THEN SelectValue(vopts) ELSE @]
              /\ Received(Ktx2Handler(updateExposure(ui'.selection), ui.clicked))
    /\ UNCHANGED <<ux, ae, cc, ki, doc, pc, colorDisplays, info, web, fs, notes, log, me, peer>>

\* another view is chosen on the .ktx2 page, lines 1301-1304
Ktx2ViewChange ==
    /\ ui.kind = "ktx2" /\ Len(handlers) < MaxMsgs
    /\ \E v \in Range(ui.viewOptions) \ {ui.viewSelect} :
          /\ ui' = [ui EXCEPT !.viewSelect = v, !.selection.view = v]
          /\ Received(Ktx2Handler(updateExposure(ui'.selection), ui.clicked))
    /\ UNCHANGED <<ux, ae, cc, ki, doc, pc, colorDisplays, info, web, fs, notes, log, me, peer>>

\* the slider of the .exr/.hdr page is moved, lines 865-868
ExrExposureChange ==
    /\ ui.kind = "exr" /\ Len(handlers) < MaxMsgs
    /\ \E e \in SessionStops \ {ui.lastExposure} :
          /\ ui' = [ui EXCEPT !.lastExposure = e]
          /\ Received(ExrHandler(updateImage(ui')))
    /\ UNCHANGED <<ux, ae, cc, ki, doc, pc, colorDisplays, info, web, fs, notes, log, me, peer>>

\* another display is chosen on the .exr/.hdr page, lines 826-854
ExrDisplayChange ==
    /\ ui.kind = "exr" /\ Len(handlers) < MaxMsgs
    /\ \E d \in Range(ui.displayOptions) \ {ui.lastDisplay} :
          LET vopts == viewOptionsAfter(colorDisplays, d, ui.lastView,
                                        ui.viewOptions)
              found == findByName(colorDisplays, d, 1) # 0
          IN  /\ ui' = [ui EXCEPT !.lastDisplay = d,
                                  !.viewOptions = OptionValues(vopts),
                                  !.lastView = IF found THEN SelectValue(vopts) ELSE @]
              /\ Received(ExrHandler(updateImage(ui')))
    /\ UNCHANGED <<ux, ae, cc, ki, doc, pc, colorDisplays, info, web, fs, notes, log, me, peer>>

\* another view is chosen on the .exr/.hdr page, lines 856-859
ExrViewChange ==
    /\ ui.kind = "exr" /\ Len(handlers) < MaxMsgs
    /\ \E v \in Range(ui.viewOptions) \ {ui.lastView} :
          /\ ui' = [ui EXCEPT !.lastView = v]
          /\ Received(ExrHandler(updateImage(ui')))
    /\ UNCHANGED <<ux, ae, cc, ki, doc, pc, colorDisplays, info, web, fs, notes, log, me, peer>>

\* faulty variant: the catch of a handler reports nothing
HandlerFailed_Silent(n) == notes

\* showErrorMessage of the catch of a handler, lines 329, 444, 479
HandlerFailed(n) ==
    Notified(n, IF handlers[n].type = "extract" THEN "Failed to extract KTX2 part"
                ELSE "Failed to adjust exposure")

\* what follows updateKtx2Preview in the handler of message n, of which u
\* is the call after the exit: the tonemap is started with the exposure,
\* display and view of lines 418-422 resp. 453-454 and 461, or the catch
\* runs, or the fallback command is running
HandlerAfterExtract(n, u) ==
    LET h == handlers[n]
        m == h.msg
        exposure == IF m.type = "extract" THEN m.selection.exposure ELSE m.exposure
        display == IF m.type = "extract" THEN Or(m.display, "sRGB - Display")
                   ELSE Or(m.display, Or(m.selection.display, "sRGB - Display"))
        view == IF m.type = "extract" THEN Or(m.view, "ACES 1.0 - SDR Video")
                ELSE Or(m.view, Or(m.selection.view, "ACES 1.0 - SDR Video"))
        a == adjustExposure(extractPathOf(u.previewPath), displayPathOf(doc),
                            exposure, display, view)
    IN  CASE u.pc = "resolved" ->
                /\ handlers' = [handlers EXCEPT ![n].ux = u, ![n].ae = a,
                                                ![n].pc = "tonemap"]
                /\ fs' = [fs EXCEPT ![PathStr(extractPathOf(u.previewPath))] = File(n, n)]
                /\ UNCHANGED notes
          [] u.pc = "rejected" ->
                /\ handlers' = [handlers EXCEPT ![n].ux = u, ![n].pc = "failed"]
                /\ notes' = HandlerFailed(n)
                /\ UNCHANGED fs
          [] OTHER ->
                /\ handlers' = [handlers EXCEPT ![n].ux = u]
                /\ UNCHANGED <<fs, notes>>

\* the primary "ktx extract" of a handler exits
HandlerExtractExit ==
    /\ \E n \in 1..Len(handlers) : \E ok \in BOOLEAN :
          /\ handlers[n].pc = "extract" /\ handlers[n].ux.pc = "primary"
          /\ HandlerAfterExtract(n, PrimaryExit(handlers[n].ux, ok))
    /\ UNCHANGED <<ux, ae, cc, ki, doc, pc, colorDisplays, info, web, ui, log, me, peer>>

\* the fallback "ktx extract" of a handler exits
HandlerExtractFallbackExit ==
    /\ \E n \in 1..Len(handlers) : \E ok \in BOOLEAN :
          /\ handlers[n].pc = "extract" /\ handlers[n].ux.pc = "fallback"
          /\ HandlerAfterExtract(n, FallbackExit(handlers[n].ux, ok))
    /\ UNCHANGED <<ux, ae, cc, ki, doc, pc, colorDisplays, info, web, ui, log, me, peer>>

\* faulty variant: the image is read and never posted
Posted_Nothing(n, from) == web.posted

\* webviewPanel.webview.postMessage({ type: 'updateImage', ... }) of the
\* handler of message n, lines 326, 436, 471; from is the call that wrote
\* the file the image was made from
Posted(n, from) == Append(web.posted, [by |-> n, from |-> from])

\* the tonemap of a handler exits, lines 324-330, 433-445, 465-480.  The
\* tonemap of a .ktx2 handler succeeds only if the extracted file is there;
\* then the image is read and posted and both files are removed.  The
\* .exr/.hdr handler leaves the preview file.
HandlerTonemapExit ==
    /\ \E n \in 1..Len(handlers) : \E ok \in BOOLEAN :
          LET h == handlers[n]
              in == PathStr(h.ae.inputPath)
              out == PathStr(h.ae.outputPath)
              from == IF ui.kind = "ktx2" THEN fs[in].by ELSE n
          IN  /\ h.pc = "tonemap"
              /\ (ok /\ ui.kind = "ktx2") => fs[in].exists
              /\ handlers' = [handlers EXCEPT ![n].ae = TonemapExit(h.ae, ok),
                                              ![n].pc = IF ok THEN "done" ELSE "failed"]
              /\ IF ok
                 THEN /\ web' = [web EXCEPT !.image = IF ui.kind = "ktx2"
                                                      THEN Made(n, fs[in])
                                                      ELSE File(n, n),
                                            !.posted = Posted(n, from)]
                      /\ fs' = IF ui.kind = "ktx2"
                               THEN [fs EXCEPT ![in] = Absent, ![out] = Absent]
                               ELSE [fs EXCEPT ![out] = File(n, n)]
                      /\ UNCHANGED notes
                 ELSE /\ notes' = HandlerFailed(n)
                      /\ UNCHANGED <<web, fs>>
    /\ UNCHANGED <<ux, ae, cc, ki, doc, pc, colorDisplays, info, ui, log, me, peer>>

Next ==
    \/ OpenStart \/ OpenColorConfigExit
    \/ OpenExrInfoExit \/ OpenOiioInfoExit \/ OpenTonemapExit
    \/ OpenKtxInfoExit \/ OpenKtxInfoFallbackExit
    \/ OpenExtractExit \/ OpenExtractFallbackExit \/ OpenKtxTonemapExit
    \/ Ktx2Click \/ Ktx2ExposureChange \/ Ktx2DisplayChange \/ Ktx2ViewChange
    \/ ExrExposureChange \/ ExrDisplayChange \/ ExrViewChange
    \/ HandlerExtractExit \/ HandlerExtractFallbackExit \/ HandlerTonemapExit

Spec == Init /\ [][Next]_vars

(***************************************************************************)
(* Two documents opened in the one provider object: resolveCustomEditor is *)
(* called once for each, and the steps of the two calls interleave at      *)
(* their awaits.  The steps are the actions above, taken by the session    *)
(* whose variables are the current ones; Switch hands over to the other    *)
(* session.  this.colorDisplays and the temporary directory are shared.    *)
(***************************************************************************)
PairDocs ==
    { [dir |-> "/a/", base |-> "cube.ktx2", ext |-> ".ktx2"],
      [dir |-> "/b/", base |-> "cube.ktx2", ext |-> ".ktx2"],
      [dir |-> "/a/", base |-> "foo.exr", ext |-> ".exr"] }

\* what the color-config query prints in both sessions, if it succeeds
PairOutput ==
    OutputOf(<<[star |-> FALSE, items |-> <<QuotedItem(1, TRUE), QuotedItem(2, FALSE)>>],
               [star |-> TRUE, items |-> <<QuotedItem(1, FALSE), QuotedItem(2, TRUE)>>]>>,
             TRUE, TRUE, "LF")

\* the variables of a session that are its own
Private ==
    [doc |-> doc, pc |-> pc, cc |-> cc, ki |-> ki, ux |-> ux, ae |-> ae,
     info |-> info, web |-> web, ui |-> ui, handlers |-> handlers,
     notes |-> notes, log |-> log]

\* those of a session when resolveCustomEditor is called for document d
Opening(d) ==
    [doc |-> d, pc |-> "start",
     cc |-> [pc |-> "call", output |-> PairOutput, cmds |-> <<>>, exits |-> <<>>,
             result |-> <<>>],
     ki |-> IF toLowerCase(d.ext) = ".ktx2"
            THEN [pc |-> "call", filePath |-> fsPath(d),
                  stdout |-> Text("garbage", NoHeader),
                  fallbackStdout |-> Text("noisy", CubeArrayHeader),
                  cmds |-> <<>>, exits |-> <<>>, result |-> MinimalInfo]
            ELSE NoCall,
     ux |-> NoCall, ae |-> NoCall,
     info |-> [kind |-> "none"],
     web |-> [html |-> "unset", image |-> Absent, posted |-> <<>>],
     ui |-> NoUi, handlers |-> <<>>, notes |-> <<>>, log |-> <<>>]

PairInit ==
    /\ me = 1
    /\ colorDisplays = <<>>
    /\ \E d1 \in PairDocs : \E d2 \in PairDocs \ {d1} :
          /\ doc = Opening(d1).doc /\ pc = Opening(d1).pc
          /\ cc = Opening(d1).cc /\ ki = Opening(d1).ki
          /\ ux = Opening(d1).ux /\ ae = Opening(d1).ae
          /\ info = Opening(d1).info /\ web = Opening(d1).web
          /\ ui = Opening(d1).ui /\ handlers = Opening(d1).handlers
          /\ notes = Opening(d1).notes /\ log = Opening(d1).log
          /\ peer = Opening(d2)
          /\ fs = [p \in TempPaths(d1) \cup TempPaths(d2) |-> Absent]

\* the next step is one of the other session
Switch ==
    /\ peer.pc # "none"
    /\ me' = 3 - me
    /\ peer' = Private
    /\ doc' = peer.doc /\ pc' = peer.pc
    /\ cc' = peer.cc /\ ki' = peer.ki /\ ux' = peer.ux /\ ae' = peer.ae
    /\ info' = peer.info /\ web' = peer.web /\ ui' = peer.ui
    /\ handlers' = peer.handlers /\ notes' = peer.notes /\ log' = peer.log
    /\ UNCHANGED <<colorDisplays, fs>>

PairNext ==
    \/ Switch
    \/ OpenStart \/ OpenColorConfigExit
    \/ OpenExrInfoExit \/ OpenOiioInfoExit \/ OpenTonemapExit
    \/ OpenKtxInfoExit \/ OpenKtxInfoFallbackExit
    \/ OpenExtractExit \/ OpenExtractFallbackExit \/ OpenKtxTonemapExit

SpecPair == PairInit /\ [][PairNext]_vars

(***************************************************************************)
(* Sessions whose processes exit.  cp.exec calls its callback when the     *)
(* process has exited, so that a handler takes its next step once its      *)
(* process exits: weak fairness of the steps of the handler of message n   *)
(* says that the processes of that handler exit.  The sessions are those   *)
(* of foo.exr and cube.ktx2 with the catalog of two displays; "ktx info"   *)
(* prints text that is no JSON, and with validate=false the JSON of the    *)
(* cubemap array inside validation messages.                               *)
(***************************************************************************)
LiveInit ==
    /\ Init
    /\ doc.base \in {"foo.exr", "cube.ktx2"}
    /\ cc.output = PairOutput
    /\ ki # NoCall =>
          /\ ki.stdout = Text("garbage", NoHeader)
          /\ ki.fallbackStdout = Text("noisy", CubeArrayHeader)

\* a process of the handler of message n exits and the handler runs on
HandlerStep(n) ==
    /\ n <= Len(handlers)
    /\ HandlerExtractExit \/ HandlerExtractFallbackExit \/ HandlerTonemapExit
    /\ handlers'[n] # handlers[n]

\* the processes of every handler exit
SpecLive ==
    LiveInit /\ [][Next]_vars /\ \A n \in 1..MaxMsgs : WF_vars(HandlerStep(n))

\* the processes of every handler but the first exit: one of the first
\* message may run for ever
SpecHang ==
    LiveInit /\ [][Next]_vars /\ \A n \in 2..MaxMsgs : WF_vars(HandlerStep(n))

(***************************************************************************)
(* Claims about updateKtx2Preview (SpecExtract)                            *)
(***************************************************************************)
Issued(call) == call.pc \notin {"idle", "call"}

\* C1: for a header with faceCount > 1 no extract command that is issued,
\* neither the primary one nor the cubemap fallback, contains --depth,
\* whatever pixelDepth is.
C1_NoDepthForCubemap ==
    Issued(ux) /\ ux.header.faceCount > 1 =>
        \A i \in 1..Len(ux.cmds) : ~HasFlag(ux.cmds[i], "--depth")

\* a cubemap header with pixelDepth > 1 whose primary and fallback commands
\* have both been issued
C1_Witness ==
    /\ Issued(ux)
    /\ ux.header.faceCount > 1 /\ ux.header.pixelDepth > 1
    /\ ux.selection.depth > 0
    /\ Len(ux.cmds) = 2

\* C2: for a header with layerCount <= 1 (0 standing for a missing count) no
\* extract command that is issued contains --layer.
C2_NoLayerForSingleLayer ==
    Issued(ux) /\ ux.header.layerCount <= 1 =>
        \A i \in 1..Len(ux.cmds) : ~HasFlag(ux.cmds[i], "--layer")

\* a header with exactly one layer, both commands issued
C2_Witness ==
    /\ Issued(ux)
    /\ ux.header.layerCount = 1
    /\ Len(ux.cmds) = 2 /\ ux.pc = "resolved"

OnlyLevelAndFace(cmd, u) ==
    cmd = <<"ktx", "extract", "--level", ToString(u.selection.level),
            "--face", ToString(u.selection.face),
            PathStr(u.ktx2Path), PathStr(extractPathOf(u.previewPath))>>

\* C3: a failed primary command on a cubemap is followed by exactly one
\* further command carrying only --level and --face; the call resolves if
\* that one succeeds and rejects only if it fails too; on a header that is
\* no cubemap a failed primary command rejects the call with the first error
\* and no second command; never more than two commands per call.
C3_OneFallbackForCubemap ==
    Issued(ux) =>
        /\ Len(ux.cmds) <= 2
        /\ Len(ux.exits) <= Len(ux.cmds)
        /\ Len(ux.cmds) = 2 =>
              /\ ux.header.faceCount > 1
              /\ ux.exits # <<>> /\ ux.exits[1] = FALSE
              /\ OnlyLevelAndFace(ux.cmds[2], ux)
        /\ (ux.exits = <<FALSE>> /\ ux.header.faceCount > 1) =>
              ux.pc = "fallback" /\ Len(ux.cmds) = 2
        /\ (ux.exits = <<FALSE>> /\ ux.header.faceCount <= 1) =>
              ux.pc = "rejected" /\ ux.error = "error" /\ Len(ux.cmds) = 1
        /\ ux.exits = <<FALSE, TRUE>> => ux.pc = "resolved"
        /\ ux.exits = <<FALSE, FALSE>> =>
              ux.pc = "rejected" /\ ux.error = "fallbackError"
        /\ ux.exits = <<TRUE>> => ux.pc = "resolved" /\ Len(ux.cmds) = 1
        /\ ux.pc = "rejected" => \A i \in 1..Len(ux.exits) : ~ux.exits[i]

\* a cubemap array with depth whose primary command failed and whose fallback
\* succeeded
C3_Witness ==
    /\ Issued(ux)
    /\ ux.header.faceCount > 1 /\ ux.header.layerCount > 1
    /\ ux.exits = <<FALSE, TRUE>> /\ ux.pc = "resolved"

(***************************************************************************)
(* Claims about adjustExposure (SpecTonemap)                               *)
(***************************************************************************)
\* the tokens of part appear next to one another in cmd
Contains(cmd, part) ==
    \E i \in 0..(Len(cmd) - Len(part)) :
        \A j \in 1..Len(part) : cmd[i + j] = part[j]

\* C4: with view "No Tonemapping" adjustExposure issues exactly one oiiotool
\* command, with --mulc and "--colorconvert lin_rec709 sRGB" and without
\* --ociodisplay, for every display and exposure; with any other view the
\* one command has "--ociodisplay <display> <view>" and no --colorconvert.
C4_NoTonemappingSkipsDisplayView ==
    Issued(ae) =>
        /\ Len(ae.cmds) = 1
        /\ ae.cmds[1][1] = "oiiotool"
        /\ HasFlag(ae.cmds[1], "--mulc")
        /\ IF ae.view = "No Tonemapping"
           THEN /\ Contains(ae.cmds[1], <<"--colorconvert", "lin_rec709", "sRGB">>)
                /\ ~HasFlag(ae.cmds[1], "--ociodisplay")
           ELSE /\ Contains(ae.cmds[1], <<"--ociodisplay", ae.display, ae.view>>)
                /\ ~HasFlag(ae.cmds[1], "--colorconvert")

\* a finished call with view "No Tonemapping" and a non-zero exposure
C4_Witness ==
    /\ Issued(ae)
    /\ ae.view = "No Tonemapping" /\ ae.exposure = 2
    /\ ae.pc = "resolved"

\* 2^EV written as JavaScript writes the number
FactorText ==
    [e \in -4..4 |->
        CASE e = -4 -> "0.0625" [] e = -3 -> "0.125" [] e = -2 -> "0.25"
          [] e = -1 -> "0.5"    [] e = 0  -> "1"     [] e = 1  -> "2"
          [] e = 2  -> "4"      [] e = 3  -> "8"     [] e = 4  -> "16"]

\* C5: the --mulc factor of the command equals 2^EV for every EV of the
\* slider's range -4..4 (whole stops); EV = 0 gives 1.
C5_FactorIsTwoToTheEV ==
    Issued(ae) =>
        /\ ae.exposure >= 0 => ae.exposureVal = <<2^ae.exposure, 1>>
        /\ ae.exposure < 0 => ae.exposureVal = <<1, 2^(0 - ae.exposure)>>
        /\ FlagValue(ae.cmds[1], "--mulc") = FactorText[ae.exposure]
        /\ ae.exposure = 0 => FlagValue(ae.cmds[1], "--mulc") = "1"

\* the lowest exposure of the slider, tonemapped
C5_Witness ==
    /\ Issued(ae)
    /\ ae.exposure = ExposureMin /\ ae.view # "No Tonemapping"
    /\ FlagValue(ae.cmds[1], "--mulc") = "0.0625"

(***************************************************************************)
(* Claims about the color configuration (SpecColor)                        *)
(***************************************************************************)
DisplayLines(lines) == { i \in 1..Len(lines) : lines[i].kind = "display" }

\* a 'Known displays:' block in the layout of the tool: every display line is
\* followed by its views line, which lists at least one view, all quoted
WellFormedBlock(o) ==
    /\ o.eol = "LF"
    /\ IndexOfKind(o.lines, "known", 1) # 0
    /\ DisplayLines(o.lines) # {}
    /\ \A i \in DisplayLines(o.lines) :
          /\ i < Len(o.lines)
          /\ o.lines[i + 1].kind = "views"
          /\ o.lines[i + 1].items # <<>>
          /\ \A j \in 1..Len(o.lines[i + 1].items) : o.lines[i + 1].items[j].quoted

\* exactly one display is marked, and within it exactly one view
OneMarked(o) ==
    /\ Cardinality({ i \in DisplayLines(o.lines) : o.lines[i].star }) = 1
    /\ \A i \in DisplayLines(o.lines) :
          o.lines[i].star =>
              Cardinality({ j \in 1..Len(o.lines[i + 1].items) :
                              o.lines[i + 1].items[j].star }) = 1

DefaultDisplays(displays) == { d \in 1..Len(displays) : displays[d].isDefault }
DefaultViews(display) ==
    { v \in 1..Len(display.views) : display.views[v].isDefault }

\* C7: parsing a well-formed 'Known displays:' block in which exactly one
\* display, and within it exactly one view, is marked returns a catalog with
\* exactly one default display and, within it, exactly one default view.
C7_OneDefaultDisplayAndView ==
    (cc.pc = "done" /\ cc.exits = <<TRUE>>
       /\ WellFormedBlock(cc.output) /\ OneMarked(cc.output)) =>
        /\ Cardinality(DefaultDisplays(cc.result)) = 1
        /\ \A d \in DefaultDisplays(cc.result) :
              Cardinality(DefaultViews(cc.result[d])) = 1

\* C10: after color-config discovery, whether the query succeeds, fails or
\* prints something that does not parse, the catalog has at least one display
\* with at least one view.
C10_CatalogNeverEmpty ==
    cc.pc = "done" =>
        \E d \in 1..Len(cc.result) : cc.result[d].views # <<>>

(***************************************************************************)
(* Claims about getKtx2Info (SpecInfo)                                     *)
(***************************************************************************)
\* the text cannot be parsed as JSON, also not its part from the first
\* opening to the last closing brace
Malformed(text) == text.kind \in {"braces", "garbage"}

AllOnes(header) ==
    /\ header.levelCount = 1 /\ header.layerCount = 1
    /\ header.faceCount = 1 /\ header.pixelDepth = 1

\* C8: getKtx2Info never rejects; when both "ktx info" invocations fail, or
\* the output of the one that succeeded is malformed, it returns a header
\* with levelCount, layerCount, faceCount and pixelDepth all 1.
C8_MinimalHeaderNeverThrows ==
    /\ ki.pc # "rejected"
    /\ ki.pc = "done" =>
          /\ ki.exits = <<FALSE, FALSE>> => AllOnes(ki.result.header)
          /\ (ki.exits = <<TRUE>> /\ Malformed(ki.stdout)) =>
                AllOnes(ki.result.header)
          /\ (ki.exits = <<FALSE, TRUE>> /\ Malformed(ki.fallbackStdout)) =>
                AllOnes(ki.result.header)
    /\ ki.pc \in {"info", "fallback"} => Len(ki.exits) < Len(ki.cmds)

\* the first invocation failed and the second printed braces around no JSON
C8_Witness ==
    /\ ki.pc = "done"
    /\ ki.exits = <<FALSE, TRUE>>
    /\ ki.fallbackStdout.kind = "braces"
    /\ ki.stdout.kind = "json" /\ ki.stdout.header.faceCount = 2

(***************************************************************************)
(* Claims about a preview session (Spec)                                   *)
(***************************************************************************)
Marked(list) == { i \in 1..Len(list) : list[i].isDefault }

\* C6: on opening a .exr or .hdr file the first tonemap command is issued
\* for exposure 0, so it has "--mulc 1", and it names the display the
\* catalog marks as default and, of that display, the view marked as default.
C6_InitialTonemapUsesDefaults ==
    (toLowerCase(doc.ext) \in {".exr", ".hdr"} /\ Issued(ae)) =>
        /\ ae.exposure = 0
        /\ Len(ae.cmds) = 1
        /\ ae.cmds[1][1] = "oiiotool"
        /\ Contains(ae.cmds[1], <<"--mulc", "1">>)
        /\ \A i \in Marked(colorDisplays) :
              /\ FlagValue(ae.cmds[1], "--ociodisplay") = NameStr(colorDisplays[i].name)
              /\ \A j \in Marked(colorDisplays[i].views) :
                    Contains(ae.cmds[1],
                             <<"--ociodisplay", NameStr(colorDisplays[i].name),
                               NameStr(colorDisplays[i].views[j].name)>>)

\* a .hdr file opened with a catalog of two displays whose second display,
\* and within it the second view, is the one marked; the first tonemap done
C6_Witness ==
    /\ doc.ext = ".HDR"
    /\ Issued(ae) /\ ae.pc = "resolved"
    /\ Len(colorDisplays) = 2
    /\ Marked(colorDisplays) = {2}
    /\ Marked(colorDisplays[2].views) = {2}
    /\ web.html = "exr"

\* the handlers of the messages posted for clicks on selector buttons
ClickHandlers == { n \in 1..Len(handlers) : handlers[n].type = "extract" }

FlagOf(g) == "--" \o g

\* C9 as stated: the extract command issued for a click carries, for every
\* group, the value clicked last in that group (the clicked value for the
\* clicked group); a group is left out of the command only while its value
\* is 0.
C9_ClickCarriesEveryGroup ==
    \A n \in ClickHandlers : \A g \in Groups :
        IF HasFlag(handlers[n].ux.cmds[1], FlagOf(g))
        THEN FlagValue(handlers[n].ux.cmds[1], FlagOf(g))
                = ToString(handlers[n].clicked[g])
        ELSE handlers[n].clicked[g] = 0

\* C9 (amended): the extract command issued for a click carries the value
\* clicked last (initially 0) for every group the command is built with:
\* --level always, --face for a cubemap (faceCount > 1), --depth for a
\* header with pixelDepth > 1 that is no cubemap, --layer for layerCount > 1;
\* the other groups are left out whatever was clicked, and the cubemap
\* fallback carries the level and the face only.  For a cubemap with
\* faceCount = 6 and pixelDepth = 0, face 3 clicked and nothing else, the
\* command is "ktx extract --level 0 --face 3 <in> <tmp>.exr", without --depth.
C9_ClickCarriesBuiltGroups ==
    \A n \in ClickHandlers :
        LET cmd == handlers[n].ux.cmds[1]
            c == handlers[n].clicked
            header == headerOf(info)
        IN  /\ cmd[1] = "ktx" /\ cmd[2] = "extract"
            /\ FlagValue(cmd, "--level") = ToString(c.level)
            /\ HasFlag(cmd, "--face") <=> header.faceCount > 1
            /\ HasFlag(cmd, "--face") => FlagValue(cmd, "--face") = ToString(c.face)
            /\ HasFlag(cmd, "--depth") <=> (header.faceCount <= 1 /\ header.pixelDepth > 1)
            /\ HasFlag(cmd, "--depth") => FlagValue(cmd, "--depth") = ToString(c.depth)
            /\ HasFlag(cmd, "--layer") <=> header.layerCount > 1
            /\ HasFlag(cmd, "--layer") => FlagValue(cmd, "--layer") = ToString(c.layer)
            /\ Len(handlers[n].ux.cmds) = 2 =>
                  handlers[n].ux.cmds[2] =
                      <<"ktx", "extract", "--level", ToString(c.level),
                        "--face", ToString(c.face),
                        "cube.ktx2", "preview_cube.ktx2.png.exr">>
            /\ (header.faceCount = 6 /\ header.pixelDepth = 0
                  /\ c = [level |-> 0, layer |-> 0, face |-> 3, depth |-> 0]) =>
                  cmd = <<"ktx", "extract", "--level", "0", "--face", "3",
                          "cube.ktx2", "preview_cube.ktx2.png.exr">>

\* the cubemap with six faces: face 3 was clicked first and level 1 after
\* it, and the update for the second click is done
C9_Witness ==
    /\ Len(handlers) = 2
    /\ headerOf(info).faceCount = 6 /\ headerOf(info).pixelDepth = 0
    /\ handlers[1].type = "extract" /\ handlers[2].type = "extract"
    /\ handlers[1].clicked = [level |-> 0, layer |-> 0, face |-> 3, depth |-> 0]
    /\ handlers[2].clicked = [level |-> 1, layer |-> 0, face |-> 3, depth |-> 0]
    /\ handlers[2].pc = "done"

\* the display chosen for the initial render of a non-empty catalog: the
\* first marked one, the first one when none is marked
ChosenDisplay(displays) ==
    IF Marked(displays) = {} THEN 1
    ELSE CHOOSE i \in Marked(displays) : \A k \in Marked(displays) : i <= k

\* C11: when no display of the catalog is marked default, the first tonemap
\* of an open names the first display, and when the display it names has no
\* view marked default it names the first view of that display; for the
\* open of a .exr/.hdr file and for the open of a .ktx2 file.
C11_FirstEntryWhenNoneMarked ==
    (Issued(ae) /\ toLowerCase(doc.ext) \in {".exr", ".hdr", ".ktx2"}
       /\ colorDisplays # <<>>) =>
        LET d == colorDisplays[ChosenDisplay(colorDisplays)]
        IN  /\ Marked(colorDisplays) = {} =>
                  ae.display = NameStr(colorDisplays[1].name)
            /\ (Marked(d.views) = {} /\ d.views # <<>>) =>
                  /\ ae.view = NameStr(d.views[1].name)
                  /\ Contains(ae.cmds[1], <<"--ociodisplay", NameStr(d.name),
                                            NameStr(d.views[1].name)>>)

\* a .ktx2 file opened with a catalog of two displays, none marked, whose
\* first display has two views, none marked; the page is rendered
C11_Witness ==
    /\ toLowerCase(doc.ext) = ".ktx2"
    /\ Len(colorDisplays) = 2 /\ Marked(colorDisplays) = {}
    /\ Len(colorDisplays[1].views) = 2 /\ Marked(colorDisplays[1].views) = {}
    /\ Issued(ae) /\ ae.pc = "resolved"
    /\ web.html = "ktx2"

\* the error of the call by (0 for resolveCustomEditor, n for the handler of
\* the n-th message) is shown: in the error panel or in a notification
ErrorShown(by) ==
    \/ web.html = "error"
    \/ \E k \in 1..Len(notes) : notes[k].by = by

\* the page has controls that post messages
Interactive == ui.kind # "none"

\* C12: when a process fails during the open or during a later update, the
\* preview ends in a state that displays the error and stays interactive, so
\* that a further UI message can be sent and handled; for both file types.
C12_FailureStaysInteractive ==
    /\ (toLowerCase(doc.ext) \in {".exr", ".hdr", ".ktx2"}
          /\ (pc = "failed" \/ (pc = "rendered" /\ web.html = "error"))) =>
          (ErrorShown(0) /\ Interactive)
    /\ \A n \in 1..Len(handlers) :
          handlers[n].pc = "failed" => (ErrorShown(n) /\ Interactive)

\* the processes of a call that were started and have not exited
InFlight(call) == IF Issued(call) THEN Len(call.cmds) - Len(call.exits) ELSE 0

\* those of resolveCustomEditor: of its calls, and exrinfo or oiiotool --info
OpenInFlight ==
    InFlight(cc) + InFlight(ki) + InFlight(ux) + InFlight(ae)
        + (IF pc \in {"exrinfo", "oiioinfo"} THEN 1 ELSE 0)

RECURSIVE HandlersInFlight(_)
HandlersInFlight(n) ==
    IF n = 0 THEN 0
    ELSE InFlight(handlers[n].ux) + InFlight(handlers[n].ae) + HandlersInFlight(n - 1)

\* C13: within one session at most one external process is in flight at any
\* time, whenever the UI messages arrive: a message received while another
\* is being handled starts no process before the processes of that one have
\* exited.
C13_OneProcessInFlight ==
    OpenInFlight + HandlersInFlight(Len(handlers)) <= 1

\* every command of the sequence is a command of the tool
AllOf(cmds, tool) == \A i \in 1..Len(cmds) : cmds[i][1] = tool

\* a render of a .ktx2 file, made of the extraction u and the tonemap a:
\* "ktx extract" commands first, the oiiotool command only once the
\* extraction has succeeded
ExtractThenTonemap(u, a) ==
    /\ Issued(u) =>
          \A i \in 1..Len(u.cmds) : u.cmds[i][1] = "ktx" /\ u.cmds[i][2] = "extract"
    /\ Issued(a) =>
          /\ Issued(u) /\ u.pc = "resolved"
          /\ u.exits # <<>> /\ u.exits[Len(u.exits)]
          /\ Len(u.exits) = Len(u.cmds)
          /\ AllOf(a.cmds, "oiiotool")

KtxRenders ==
    /\ ExtractThenTonemap(ux, ae)
    /\ \A n \in 1..Len(handlers) : ExtractThenTonemap(handlers[n].ux, handlers[n].ae)

C15_OpenFailureReporting ==
    /\ (doc.ext \in {".exr", ".HDR"} /\ Issued(ae) /\ ae.exits = <<FALSE>>) =>
          pc = "failed"
    /\ (doc.ext \in {".exr", ".HDR"} /\ pc = "failed") =>
          /\ Len(notes) = 1 /\ notes[1].by = 0
          /\ web.html = "unset" /\ handlers = <<>>
          /\ Len(log) <= (IF doc.ext = ".exr" THEN 4 ELSE 3)
          /\ Issued(ae) => Len(ae.cmds) = 1
    /\ (doc.ext = ".txt" /\ pc \notin {"start", "colorconfig"}) =>
          /\ pc = "failed"
          /\ Len(notes) = 1 /\ notes[1].by = 0
          /\ web.html = "unset" /\ handlers = <<>>
          /\ Len(log) = 1
    /\ (doc.ext = ".ktx2"
          /\ ((Issued(ux) /\ ux.pc = "rejected") \/ (Issued(ae) /\ ae.exits = <<FALSE>>))) =>
          /\ pc = "rendered" /\ web.html = "error"
          /\ notes = <<>> /\ handlers = <<>>
          /\ Len(ux.cmds) <= (IF headerOf(info).faceCount > 1 THEN 2 ELSE 1)
          /\ Len(ux.exits) = Len(ux.cmds)
          /\ Issued(ae) => Len(ae.cmds) = 1
          /\ Len(log) = 1 + Len(ki.cmds) + Len(ux.cmds) + (IF Issued(ae) THEN 1 ELSE 0)

\* a .ktx2 open whose extraction went through the cubemap fallback and
\* whose tonemap then failed: the error panel, no notification
C15_Witness ==
    /\ doc.ext = ".ktx2"
    /\ Issued(ux) /\ ux.exits = <<FALSE, TRUE>>
    /\ Issued(ae) /\ ae.exits = <<FALSE>>
    /\ web.html = "error" /\ notes = <<>>

\* the index that cmd passes with flag, if it does, is below max(1, count)
WithinBound(cmd, flag, count) ==
    HasFlag(cmd, flag) =>
        FlagValue(cmd, flag) \in
            { ToString(v) : v \in 0..((IF count > 1 THEN count ELSE 1) - 1) }

WithinHeader(cmds, header) ==
    \A i \in 1..Len(cmds) :
        /\ HasFlag(cmds[i], "--level")
        /\ WithinBound(cmds[i], "--level", header.levelCount)
        /\ WithinBound(cmds[i], "--layer", header.layerCount)
        /\ WithinBound(cmds[i], "--face", header.faceCount)
        /\ WithinBound(cmds[i], "--depth", header.pixelDepth)

\* C16: in every "ktx extract" command of a .ktx2 session driven by the
\* generated page, whatever was clicked, the indices are within the header:
\* level < max(1, levelCount), layer < max(1, layerCount),
\* face < max(1, faceCount), depth < max(1, pixelDepth).
C16_IndicesWithinHeader ==
    /\ Issued(ux) => WithinHeader(ux.cmds, headerOf(info))
    /\ \A n \in 1..Len(handlers) :
          Issued(handlers[n].ux) => WithinHeader(handlers[n].ux.cmds, headerOf(info))

\* the six-face cubemap with two levels: the last face and the last level
\* were clicked and the second update is done
C16_Witness ==
    /\ headerOf(info).faceCount = 6 /\ headerOf(info).levelCount = 2
    /\ Len(handlers) = 2
    /\ handlers[2].type = "extract"
    /\ handlers[2].msg.selection.face = 5 /\ handlers[2].msg.selection.level = 1
    /\ handlers[2].pc = "done"

\* no temporary file written by the call by is left
NothingLeftBy(by) ==
    \A p \in DOMAIN fs : ~(fs[p].exists /\ fs[p].by = by)

\* C19: after each initial render that succeeded and after each update
\* for a message that succeeded, every temporary file written for it (the
\* preview PNG of a .exr/.hdr file, the extracted EXR and the display PNG
\* of a .ktx2 file) has been removed.
C19_TempFilesRemoved ==
    /\ (pc = "rendered" /\ web.html \in {"exr", "ktx2"}) => NothingLeftBy(0)
    /\ \A n \in 1..Len(handlers) : handlers[n].pc = "done" => NothingLeftBy(n)

\* the number of notifications of the call by
RECURSIVE NotesBy(_, _)
NotesBy(by, k) ==
    IF k = 0 THEN 0
    ELSE (IF notes[k].by = by THEN 1 ELSE 0) + NotesBy(by, k - 1)

\* C20: no failure escapes a preview: resolveCustomEditor never rejects and
\* no handler lets an exception out, whichever process, file read or
\* metadata parse fails; every failure is caught, and reported in the
\* preview or by a notification of that preview.
C20_NoFailureEscapes ==
    /\ pc \in {"start", "colorconfig", "exrinfo", "oiioinfo", "tonemap", "ktxinfo",
               "extract", "ktxtonemap", "rendered", "failed"}
    /\ Issued(cc) => cc.pc \in {"running", "done"}
    /\ Issued(ki) => ki.pc \in {"info", "fallback", "done"}
    /\ pc = "failed" => NotesBy(0, Len(notes)) = 1
    /\ (Issued(ux) /\ ux.pc = "rejected") => (pc = "rendered" /\ web.html = "error")
    /\ (Issued(ae) /\ ae.pc = "rejected") =>
          \/ pc = "failed" /\ NotesBy(0, Len(notes)) = 1
          \/ pc = "rendered" /\ web.html = "error"
    /\ (info.kind = "null" /\ Issued(ae) /\ ae.pc = "resolved") =>
          (pc = "rendered" /\ web.html = "error")
    /\ \A n \in 1..Len(handlers) :
          LET h == handlers[n]
              rejected == \/ Issued(h.ux) /\ h.ux.pc = "rejected"
                          \/ Issued(h.ae) /\ h.ae.pc = "rejected"
          IN  /\ h.pc \in {"extract", "tonemap", "done", "failed"}
              /\ rejected <=> h.pc = "failed"
              /\ NotesBy(n, Len(notes)) = (IF rejected THEN 1 ELSE 0)

\* a .ktx2 file whose "ktx info" printed the JSON text null: extraction and
\* tonemap succeeded, the TypeError of info.header ended in the error panel
C20_Witness ==
    /\ doc.ext = ".ktx2"
    /\ info.kind = "null"
    /\ Issued(ae) /\ ae.pc = "resolved"
    /\ pc = "rendered" /\ web.html = "error"

(***************************************************************************)
(* Claims about two sessions of one provider (SpecPair)                    *)
(***************************************************************************)
\* C17: the catalog a session uses to choose its default display and view
\* and to render its html is the result of the session's own color-config
\* query, unchanged for the whole session, also when another document is
\* opened while the open of the first is in progress.
C17_OwnCatalogThroughout ==
    /\ Issued(ae) =>
          /\ ae.display = initialDisplayName(cc.result)
          /\ ae.view = initialViewName(cc.result)
    /\ web.html = "exr" => ui = ExrUi(cc.result)
    /\ web.html = "ktx2" =>
          ui.displayOptions = OptionValues(displaysOptions(cc.result))

\* the name of a temporary file of the document with base name base
TempName(base, suffix) == "preview_" \o base \o suffix

\* the last token of a command
LastOf(cmd) == cmd[Len(cmd)]

\* C18: the temporary paths of a session (the preview PNG, the extracted
\* EXR, the display PNG) are made from the base name of the document alone,
\* so two documents with the same base name in different directories have
\* the same temporary paths (and two sessions on them can come to read or
\* delete each other's files).
C18_TempPathsByBaseName ==
    /\ (Issued(ae) /\ toLowerCase(doc.ext) \in {".exr", ".hdr"}) =>
          LastOf(ae.cmds[1]) = TempName(doc.base, ".png")
    /\ (Issued(ae) /\ toLowerCase(doc.ext) = ".ktx2") =>
          /\ ae.cmds[1][2] = TempName(doc.base, ".png.exr")
          /\ LastOf(ae.cmds[1]) = TempName(doc.base, ".png_display.png")
    /\ Issued(ux) =>
          \A i \in 1..Len(ux.cmds) : LastOf(ux.cmds[i]) = TempName(doc.base, ".png.exr")
    /\ \A p \in DOMAIN fs :
          fs[p].exists =>
              \E b \in {doc.base, peer.doc.base} :
                 p \in {TempName(b, ".png"), TempName(b, ".png.exr"),
                        TempName(b, ".png_display.png")}
    /\ (peer.doc.base = doc.base) =>
          /\ previewPathOf(doc) = previewPathOf(peer.doc)
          /\ extractPathOf(previewPathOf(doc)) = extractPathOf(previewPathOf(peer.doc))
          /\ displayPathOf(doc) = displayPathOf(peer.doc)

\* two documents cube.ktx2 in different directories: the page of one session
\* shows an image made from the file the other session extracted, and the
\* other session's tonemap failed for want of that file
C18_Witness ==
    /\ peer.doc.base = doc.base /\ peer.doc.dir # doc.dir
    /\ web.html = "ktx2"
    /\ web.image.of = me /\ web.image.src = 3 - me
    /\ peer.web.html = "error"
    /\ peer.ux.pc = "resolved" /\ peer.ae.pc = "rejected"

(***************************************************************************)
(* Further claims about updateKtx2Preview (SpecExtract)                    *)
(***************************************************************************)
\* C21: the primary command of updateKtx2Preview always has --level with
\* the selected level; it has --face (with the selected face) exactly when
\* faceCount > 1, --depth (with the selected depth) exactly when
\* pixelDepth > 1 and faceCount <= 1, --layer (with the selected layer)
\* exactly when layerCount > 1; --face and --depth never occur together.
C21_PrimaryCommandFlags ==
    Issued(ux) =>
        LET cmd == ux.cmds[1]
            h == ux.header
            s == ux.selection
        IN  /\ Contains(cmd, <<"ktx", "extract", "--level", ToString(s.level)>>)
            /\ HasFlag(cmd, "--face") <=> h.faceCount > 1
            /\ HasFlag(cmd, "--face") => FlagValue(cmd, "--face") = ToString(s.face)
            /\ HasFlag(cmd, "--depth") <=> (h.pixelDepth > 1 /\ h.faceCount <= 1)
            /\ HasFlag(cmd, "--depth") => FlagValue(cmd, "--depth") = ToString(s.depth)
            /\ HasFlag(cmd, "--layer") <=> h.layerCount > 1
            /\ HasFlag(cmd, "--layer") => FlagValue(cmd, "--layer") = ToString(s.layer)
            /\ ~(HasFlag(cmd, "--face") /\ HasFlag(cmd, "--depth"))

\* a volume array (no cubemap) with level 1, depth 1 and layer 1 selected:
\* the primary command carries all three and no face
C21_Witness ==
    /\ Issued(ux)
    /\ ux.header.faceCount = 1 /\ ux.header.pixelDepth = 2 /\ ux.header.layerCount = 2
    /\ ux.selection = [level |-> 1, layer |-> 1, face |-> 1, depth |-> 1]
    /\ ux.cmds[1] = <<"ktx", "extract", "--level", "1", "--depth", "1", "--layer", "1",
                      "cube.ktx2", "preview_cube.ktx2.png.exr">>

(***************************************************************************)
(* Further claims about getKtx2Info (SpecInfo)                             *)
(***************************************************************************)
\* the value a text parses to, if it does
Parsed(text) ==
    [kind |-> parseInfoJson(text).kind, header |-> parseInfoJson(text).header]

\* C22: getKtx2Info runs "ktx info --format json" first and the form with
\* validate=false only once the first has failed, never when the first
\* succeeded; at most two invocations per call; the minimal info is
\* returned only when the second invocation failed or the output of the
\* invocation that succeeded did not parse: an output that parses is what
\* the call returns.
C22_ValidateFalseOnlyAfterFailure ==
    Issued(ki) =>
        /\ Len(ki.cmds) <= 2 /\ Len(ki.exits) <= Len(ki.cmds)
        /\ ki.cmds[1] = <<"ktx", "info", "--format", "json", "cube.ktx2">>
        /\ Len(ki.cmds) = 2 =>
              /\ ki.exits # <<>> /\ ki.exits[1] = FALSE
              /\ ki.cmds[2] = <<"ktx", "info", "--format", "json",
                                "--format-json:validate=false", "cube.ktx2">>
        /\ (ki.exits # <<>> /\ ki.exits[1] = TRUE) =>
              Len(ki.cmds) = 1 /\ ki.pc = "done"
        /\ ki.exits = <<FALSE>> => ki.pc = "fallback" /\ Len(ki.cmds) = 2
        /\ ki.pc = "done" =>
              /\ Len(ki.exits) = Len(ki.cmds)
              /\ (ki.exits = <<TRUE>> /\ ~parseInfoJson(ki.stdout).threw) =>
                    ki.result = Parsed(ki.stdout)
              /\ (ki.exits = <<FALSE, TRUE>> /\ ~parseInfoJson(ki.fallbackStdout).threw) =>
                    ki.result = Parsed(ki.fallbackStdout)
              /\ ki.result = MinimalInfo =>
                    \/ ki.exits = <<FALSE, FALSE>>
                    \/ ki.exits = <<TRUE>> /\ parseInfoJson(ki.stdout).threw
                    \/ ki.exits = <<FALSE, TRUE>> /\ parseInfoJson(ki.fallbackStdout).threw
                    \/ ki.exits = <<TRUE>> /\ Parsed(ki.stdout) = MinimalInfo
                    \/ ki.exits = <<FALSE, TRUE>> /\ Parsed(ki.fallbackStdout) = MinimalInfo

\* the first invocation failed; the second printed validation messages
\* around the JSON of a header with two faces, which is what is returned
C22_Witness ==
    /\ ki.pc = "done"
    /\ ki.exits = <<FALSE, TRUE>>
    /\ ki.fallbackStdout.kind = "noisy" /\ ki.fallbackStdout.header.faceCount = 2
    /\ ki.result.header.faceCount = 2
    /\ ki.stdout.kind = "json"

(***************************************************************************)
(* Claims about the updates of a session whose processes exit (SpecLive)   *)
(* and of a session in which a process of the first message may run for    *)
(* ever (SpecHang)                                                         *)
(***************************************************************************)
\* the number of 'updateImage' messages posted by the handler of message n,
\* among the first k that were posted
RECURSIVE PostedBy(_, _)
PostedBy(n, k) ==
    IF k = 0 THEN 0
    ELSE (IF web.posted[k].by = n THEN 1 ELSE 0) + PostedBy(n, k - 1)

\* the handler of message n has run to its end
Finished(n) == handlers[n].pc \in {"done", "failed"}

\* every process the call started has exited, the last one successfully
Succeeded(call) ==
    /\ Len(call.exits) = Len(call.cmds)
    /\ call.exits[Len(call.exits)]

\* the outcome of the handler of message n: none while a process of it
\* is running; one 'updateImage' and no notification when all its steps
\* succeeded; one notification and no 'updateImage' when a step failed
OneOutcome(n) ==
    LET h == handlers[n]
        posted == PostedBy(n, Len(web.posted))
        notified == NotesBy(n, Len(notes))
    IN  CASE h.pc = "done" ->
                /\ posted = 1 /\ notified = 0
                /\ Issued(h.ux) => Succeeded(h.ux)
                /\ Succeeded(h.ae)
          [] h.pc = "failed" ->
                /\ posted = 0 /\ notified = 1
                /\ InFlight(h.ux) + InFlight(h.ae) = 0
                /\ IF Issued(h.ae) THEN ~Succeeded(h.ae) ELSE ~Succeeded(h.ux)
          [] OTHER ->
                /\ posted = 0 /\ notified = 0
                /\ InFlight(h.ux) + InFlight(h.ae) = 1

\* C23: for every 'extract' or 'adjustExposure' message the host handles,
\* if the processes of its handler exit, the handler comes to its end with
\* exactly one outcome: one 'updateImage' posted when all steps succeeded,
\* one error notification when a step failed, never both; and while a
\* process of it is running there is no outcome yet.
C23_ExactlyOneOutcome ==
    /\ [](\A n \in 1..Len(handlers) :
             /\ handlers[n].type \in {"extract", "adjustExposure"}
             /\ OneOutcome(n))
    /\ \A n \in 1..MaxMsgs :
          (Len(handlers) >= n) ~> (Len(handlers) >= n /\ Finished(n))

\* a .ktx2 session with two messages: the update for the first was posted,
\* the second went through the cubemap fallback and failed in its tonemap
C23_Witness ==
    /\ doc.ext = ".ktx2"
    /\ Len(handlers) = 2
    /\ handlers[1].pc = "done" /\ PostedBy(1, Len(web.posted)) = 1
    /\ handlers[2].pc = "failed" /\ handlers[2].ux.exits = <<FALSE, TRUE>>
    /\ handlers[2].ae.exits = <<FALSE>>
    /\ NotesBy(2, Len(notes)) = 1 /\ PostedBy(2, Len(web.posted)) = 0

\* the handler of message n has started a process
HasStarted(n) == Issued(handlers[n].ux) \/ Issued(handlers[n].ae)

\* the handler of message n has a process that has not exited
Running(n) == InFlight(handlers[n].ux) + InFlight(handlers[n].ae) > 0

\* every process of the handler of message n exited successfully
AllSucceeded(n) ==
    /\ ~Running(n)
    /\ Issued(handlers[n].ux) =>
          \A i \in 1..Len(handlers[n].ux.exits) : handlers[n].ux.exits[i]
    /\ Issued(handlers[n].ae)
    /\ \A i \in 1..Len(handlers[n].ae.exits) : handlers[n].ae.exits[i]

\* C24: an update whose process has not exited is not complete (nothing
\* is posted or notified for it), and for ever so if the process never
\* exits; a message received later in the session is handled all the same:
\* its first process is started when it is received, its handler comes to
\* its end if its own processes exit, whether or not those of the earlier
\* message ever do, and if they all exit successfully its 'updateImage' is
\* posted.
C24_LaterMessageStillHandled ==
    /\ [](\A n \in 1..Len(handlers) :
             /\ HasStarted(n)
             /\ Running(n) =>
                   /\ ~Finished(n)
                   /\ PostedBy(n, Len(web.posted)) = 0
                   /\ NotesBy(n, Len(notes)) = 0
             /\ AllSucceeded(n) =>
                   /\ handlers[n].pc = "done"
                   /\ PostedBy(n, Len(web.posted)) = 1)
    /\ \A n \in 2..MaxMsgs :
          (Len(handlers) >= n) ~> (Len(handlers) >= n /\ Finished(n))

\* the extraction of the first message is still running while the update
\* of the second message, received after it, has been posted
C24_Witness ==
    /\ doc.ext = ".ktx2"
    /\ Len(handlers) = 2
    /\ handlers[1].pc = "extract" /\ handlers[1].ux.exits = <<>>
    /\ handlers[2].pc = "done"
    /\ web.posted = <<[by |-> 2, from |-> 2]>>
    /\ web.image.by = 2

(***************************************************************************)
(* Further claims about a preview session (Spec)                           *)
(***************************************************************************)
\* C25: every 'updateImage' posted for a message carries the image made
\* from the file that the handler of that message extracted, also when
\* handlers overlap; and while a handler tonemaps, the extracted file it
\* reads is there and is the one it wrote itself: no handler reads a file
\* another handler wrote or misses a file another handler deleted.
C25_OwnImagePosted ==
    /\ \A k \in 1..Len(web.posted) : web.posted[k].from = web.posted[k].by
    /\ \A n \in 1..Len(handlers) :
          (ui.kind = "ktx2" /\ handlers[n].pc = "tonemap") =>
              /\ fs[PathStr(handlers[n].ae.inputPath)].exists
              /\ fs[PathStr(handlers[n].ae.inputPath)].by = n

\* C26: the 'updateImage' messages are posted in the order in which the
\* messages they answer were received, and once every handler has come to
\* its end the image shown is the one of the last message received, if
\* that one was rendered.
C26_PostedInOrder ==
    /\ \A i \in 1..Len(web.posted) : \A j \in 1..Len(web.posted) :
          i < j => web.posted[i].by < web.posted[j].by
    /\ (handlers # <<>> /\ (\A n \in 1..Len(handlers) : Finished(n))
          /\ handlers[Len(handlers)].pc = "done") =>
          web.image.by = Len(handlers)

(***************************************************************************)
(* A further claim about the extraction (SpecExtract)                      *)
(***************************************************************************)
\* C27: whenever updateKtx2Preview resolves for a header with
\* layerCount > 1, the command that succeeded (the last one issued) has
\* --layer with the selected layer, the cubemap fallback included.
C27_ResolvedWithSelectedLayer ==
    (Issued(ux) /\ ux.pc = "resolved" /\ ux.header.layerCount > 1) =>
        /\ HasFlag(ux.cmds[Len(ux.cmds)], "--layer")
        /\ FlagValue(ux.cmds[Len(ux.cmds)], "--layer") = ToString(ux.selection.layer)

(***************************************************************************)
(* Claims about the page and its script (Spec)                             *)
(***************************************************************************)
\* C28: right after the initial render, before any message, the view the
\* page records as current (lastView of the .exr/.hdr page; selection.view
\* and the selected option of the view dropdown of the .ktx2 page) is the
\* view the image shown was tonemapped with, for every catalog.
C28_InitialViewIsTheRenderedView ==
    (pc = "rendered" /\ handlers = <<>>) =>
        /\ web.html = "exr" => ui.lastView = ae.view
        /\ web.html = "ktx2" =>
              /\ ui.selection.view = ae.view
              /\ ui.viewSelect = ae.view

\* cmd extracts the sub-image with the indices c of a file with the header:
\* every index it passes is the one of c, and an index it does not pass,
\* for which the tool takes 0, is 0 in c (the depth of a cubemap aside,
\* which the command builder leaves out by design)
ExtractsAt(cmd, c, header) ==
    \A g \in Groups :
        IF HasFlag(cmd, FlagOf(g)) THEN FlagValue(cmd, FlagOf(g)) = ToString(c[g])
        ELSE c[g] = 0 \/ (g = "depth" /\ isCubemap(header))

\* the handler of the last message works with what the page has now: the
\* indices of the buttons clicked last, the exposure, display and view of
\* the script's selection
CalledWithLatestChoice(h) ==
    /\ \A g \in Groups : h.ux.selection[g] = ui.clicked[g]
    /\ Issued(h.ae) =>
          /\ h.ae.exposure = ui.selection.exposure
          /\ h.ae.display = ui.selection.display
          /\ h.ae.view = ui.selection.view
          /\ FlagValue(h.ae.cmds[1], "--mulc") = FactorText[ui.selection.exposure]

\* C29: in a .ktx2 session the last message sent, of either type, is
\* rendered with the exposure, display, view and indices chosen last: the
\* extraction that succeeded extracts the sub-image of the buttons clicked
\* last, and the tonemap has the exposure, display and view of the page.
C29_RenderedWithLatestChoice ==
    (ui.kind = "ktx2" /\ handlers # <<>>) =>
        LET h == handlers[Len(handlers)]
        IN  /\ CalledWithLatestChoice(h)
            /\ h.ux.pc = "resolved" =>
                  ExtractsAt(h.ux.cmds[Len(h.ux.cmds)], ui.clicked, headerOf(info))

\* the display and the view that the script of the page has as current
CurrentDisplay == IF ui.kind = "exr" THEN ui.lastDisplay ELSE ui.selection.display
CurrentView == IF ui.kind = "exr" THEN ui.lastView ELSE ui.selection.view

\* the default view of the display of the catalog with the name: the view
\* marked default, the first view when none is marked
DefaultViewOf(name) ==
    LET views == colorDisplays[findByName(colorDisplays, name, 1)].views
    IN  IF findDefault(views, 1) # 0 THEN NameStr(views[findDefault(views, 1)].name)
        ELSE IF views # <<>> THEN NameStr(views[1].name)
        ELSE NoTonemapping

\* C30: a step of the page that changes the display keeps the view
\* 'No Tonemapping' if that is the current view, and otherwise makes the
\* default view of the new display the current view; it sends exactly one
\* message, of type 'adjustExposure', with the new display and the
\* resulting view.
C30_DisplayChangeSetsView ==
    [][(ui.kind # "none" /\ CurrentDisplay' # CurrentDisplay) =>
          /\ Len(handlers') = Len(handlers) + 1
          /\ handlers'[Len(handlers')].msg.type = "adjustExposure"
          /\ handlers'[Len(handlers')].msg.display = CurrentDisplay'
          /\ handlers'[Len(handlers')].msg.view = CurrentView'
          /\ IF CurrentView = NoTonemapping THEN CurrentView' = NoTonemapping
             ELSE CurrentView' = DefaultViewOf(CurrentDisplay')]_vars

====
